---- MODULE Spec2Model ----
(***************************************************************************)
(* A model of the core of the morlock chess engine: squares and bitboards, *)
(* positions and move generation, Zobrist hashing, the board history with  *)
(* draw adjudication, the score algebra, the transposition table and the   *)
(* move list, the search algorithms, the iterative search harness and the  *)
(* engine that launches the searches.                                      *)
(*                                                                         *)
(* A Bitboard is modelled as the set of squares whose bit is set, so that  *)
(* x ^ y is the symmetric difference, x & y the intersection, x | y the    *)
(* union and x &^ y the set difference.                                     *)
(***************************************************************************)
EXTENDS Integers, Sequences, FiniteSets, TLC

VARIABLES
    nodes, boards, game, fork, op,  \* boards and the heap of their history nodes
    zobrist,                        \* a position, a move made on it and its hashes
    score,                          \* a pair of scores under comparison
    tt,                             \* a transposition table and the last call on it
    conc,                           \* a transposition table shared by goroutines
    search,                         \* a search in progress and the searches finished
    iter,                           \* an iterative search: its worker, handle and clients
    ml,                             \* a move list and the moves taken from it
    engine                          \* an engine, its board and its active search

-----------------------------------------------------------------------------
(* Squares, ranks and files: H1 = 0, G1 = 1, .., A8 = 63. *)

NumSquares == 64
ZeroSquare == 0
Squares == 0..63

Rank(sq) == sq \div 8
File(sq) == sq % 8
NewSquare(f, r) == r * 8 + f

Rank1 == 0
Rank3 == 2
Rank4 == 3
Rank5 == 4
Rank6 == 5
Rank8 == 7
FileH == 0
FileG == 1
FileB == 6
FileA == 7

H1 == 0
G1 == 1
F1 == 2
E1 == 3
D1 == 4
C1 == 5
B1 == 6
A1 == 7

H2 == 8
G2 == 9
F2 == 10
E2 == 11
D2 == 12
C2 == 13
B2 == 14
A2 == 15

H3 == 16
G3 == 17
F3 == 18
E3 == 19
D3 == 20
C3 == 21
B3 == 22
A3 == 23

H4 == 24
G4 == 25
F4 == 26
E4 == 27
D4 == 28
C4 == 29
B4 == 30
A4 == 31

H5 == 32
G5 == 33
F5 == 34
E5 == 35
D5 == 36
C5 == 37
B5 == 38
A5 == 39

H6 == 40
G6 == 41
F6 == 42
E6 == 43
D6 == 44
C6 == 45
B6 == 46
A6 == 47

H7 == 48
G7 == 49
F7 == 50
E7 == 51
D7 == 52
C7 == 53
B7 == 54
A7 == 55

H8 == 56
G8 == 57
F8 == 58
E8 == 59
D8 == 60
C8 == 61
B8 == 62
A8 == 63

White == "White"
Black == "Black"
Colors == {White, Black}
Opponent(c) == IF c = White THEN Black ELSE White

NoPiece == "NoPiece"
Pawn == "Pawn"
Bishop == "Bishop"
Knight == "Knight"
Rook == "Rook"
Queen == "Queen"
King == "King"
Pieces == {Pawn, Bishop, Knight, Rook, Queen, King}
PieceOrder == <<Pawn, Bishop, Knight, Rook, Queen, King>>
KingQueenRookKnightBishop == <<King, Queen, Rook, Knight, Bishop>>
QueenRookKnightBishop == <<Queen, Rook, Knight, Bishop>>

-----------------------------------------------------------------------------
(* Bitboard primitives. *)

EmptyBitboard == {}
BitMask(sq) == {sq}
BitRank(r) == {sq \in Squares : Rank(sq) = r}
BitFile(f) == {sq \in Squares : File(sq) = f}
SymDiff(a, b) == (a \ b) \cup (b \ a)
ShiftLeft(bb, n) == {sq + n : sq \in {s \in bb : s + n <= 63}}
ShiftRight(bb, n) == {sq - n : sq \in {s \in bb : s - n >= 0}}

MinOf(S) == CHOOSE x \in S : \A y \in S : x <= y
LastPopSquare(bb) == IF bb = {} THEN NumSquares ELSE MinOf(bb)
PopCount(bb) == Cardinality(bb)

RECURSIVE ToSquares(_)
ToSquares(bb) ==
    IF bb = {} THEN <<>>
    ELSE LET sq == MinOf(bb) IN <<sq>> \o ToSquares(bb \ {sq})

PawnCaptureboard(c, pawns) ==
    IF c = White
    THEN (ShiftLeft(pawns, 9) \ BitFile(FileH)) \cup (ShiftLeft(pawns, 7) \ BitFile(FileA))
    ELSE (ShiftRight(pawns, 9) \ BitFile(FileA)) \cup (ShiftRight(pawns, 7) \ BitFile(FileH))

PawnMoveboard(all, c, pawns) ==
    IF c = White THEN ShiftLeft(pawns, 8) \ all ELSE ShiftRight(pawns, 8) \ all

PawnPromotionRank(c) == IF c = White THEN BitRank(Rank8) ELSE BitRank(Rank1)
PawnJumpRank(c) == IF c = White THEN BitRank(Rank4) ELSE BitRank(Rank5)

(* king[sq] and knight[sq]: the tables filled by the init functions. *)
king ==
    [sq \in Squares |->
        LET t0 == BitMask(sq)
            t1 == t0 \cup (ShiftLeft(t0, 1) \ BitFile(FileH)) \cup (ShiftRight(t0, 1) \ BitFile(FileA))
            t2 == t1 \cup ShiftLeft(t1, 8) \cup ShiftRight(t1, 8)
        IN  t2 \ BitMask(sq)]

knight ==
    [sq \in Squares |->
        LET b0 == BitMask(sq)
            one == (ShiftLeft(b0, 1) \ BitFile(FileH)) \cup (ShiftRight(b0, 1) \ BitFile(FileA))
            two == (ShiftLeft(b0, 2) \ (BitFile(FileG) \cup BitFile(FileH)))
                   \cup (ShiftRight(b0, 2) \ (BitFile(FileA) \cup BitFile(FileB)))
        IN  ShiftLeft(one, 16) \cup ShiftRight(one, 16) \cup ShiftLeft(two, 8) \cup ShiftRight(two, 8)]

KingAttackboard(sq) == king[sq]
KnightAttackboard(sq) == knight[sq]

(* The ray of squares from sq in direction (df, dr), nearest first. *)
Ray(sq, df, dr) ==
    LET n == CHOOSE k \in 0..7 :
                 /\ \A i \in 1..k : File(sq) + i * df \in 0..7 /\ Rank(sq) + i * dr \in 0..7
                 /\ ~(File(sq) + (k + 1) * df \in 0..7 /\ Rank(sq) + (k + 1) * dr \in 0..7)
    IN  [i \in 1..n |-> NewSquare(File(sq) + i * df, Rank(sq) + i * dr)]

Rays ==
    [sq \in Squares |->
        [d \in {<<1, 0>>, <<-1, 0>>, <<0, 1>>, <<0, -1>>, <<1, 1>>, <<-1, -1>>, <<-1, 1>>, <<1, -1>>} |->
            Ray(sq, d[1], d[2])]]

(* Ray tracing as the table initialisers do it: every square up to and *)
(* including the first occupied one.                                    *)
Trace(ray, occ) ==
    LET hit == {i \in 1..Len(ray) : ray[i] \in occ}
        last == IF hit = {} THEN Len(ray) ELSE MinOf(hit)
    IN  {ray[i] : i \in 1..last}

RookAttackboard(rot, sq) ==
    Trace(Rays[sq][<<1, 0>>], rot) \cup Trace(Rays[sq][<<-1, 0>>], rot)
    \cup Trace(Rays[sq][<<0, 1>>], rot) \cup Trace(Rays[sq][<<0, -1>>], rot)

BishopAttackboard(rot, sq) ==
    Trace(Rays[sq][<<1, 1>>], rot) \cup Trace(Rays[sq][<<-1, -1>>], rot)
    \cup Trace(Rays[sq][<<-1, 1>>], rot) \cup Trace(Rays[sq][<<1, -1>>], rot)

QueenAttackboard(rot, sq) == RookAttackboard(rot, sq) \cup BishopAttackboard(rot, sq)

Attackboard(rot, sq, piece) ==
    CASE piece = King -> KingAttackboard(sq)
      [] piece = Queen -> QueenAttackboard(rot, sq)
      [] piece = Rook -> RookAttackboard(rot, sq)
      [] piece = Bishop -> BishopAttackboard(rot, sq)
      [] piece = Knight -> KnightAttackboard(sq)

RECURSIVE Flatten(_)
Flatten(ss) == IF ss = <<>> THEN <<>> ELSE Head(ss) \o Flatten(Tail(ss))

-----------------------------------------------------------------------------
(* Castling rights (a 4-bit mask, modelled as a set of rights) and moves. *)

WhiteKingSideCastle == "K"
WhiteQueenSideCastle == "Q"
BlackKingSideCastle == "k"
BlackQueenSideCastle == "q"
NoCastlingRights == {}
FullCastingRights == {WhiteKingSideCastle, WhiteQueenSideCastle, BlackKingSideCastle, BlackQueenSideCastle}

IsAllowed(c, right) == c \cap {right} # {}

NoType == "NoType"
Normal == "Normal"
Push == "Push"
Jump == "Jump"
EnPassant == "EnPassant"
QueenSideCastle == "QueenSideCastle"
KingSideCastle == "KingSideCastle"
Capture == "Capture"
Promotion == "Promotion"
CapturePromotion == "CapturePromotion"

Move(t, from, to, piece, promotion, capture) ==
    [Type |-> t, From |-> from, To |-> to, Piece |-> piece, Promotion |-> promotion, Capture |-> capture]

NoMove == Move(NoType, 0, 0, NoPiece, NoPiece, NoPiece)

IsCapture(m) == m.Type = CapturePromotion \/ m.Type = Capture
IsPromotion(m) == m.Type = CapturePromotion \/ m.Type = Promotion
MoveEquals(m, o) == m.From = o.From /\ m.To = o.To /\ m.Promotion = o.Promotion

EnPassantTarget(m) ==
    IF m.Type # Jump THEN 0
    ELSE IF Rank(m.To) = Rank4 THEN NewSquare(File(m.To), Rank3)
    ELSE NewSquare(File(m.To), Rank6)

EnPassantCapture(m) ==
    IF m.Type # EnPassant THEN 0
    ELSE IF Rank(m.To) = Rank3 THEN NewSquare(File(m.To), Rank4)
    ELSE NewSquare(File(m.To), Rank5)

CastlingRookMove(m) ==
    CASE m.Type = KingSideCastle /\ m.From = E1 -> <<H1, F1>>
      [] m.Type = QueenSideCastle /\ m.From = E1 -> <<A1, D1>>
      [] m.Type = KingSideCastle /\ m.From = E8 -> <<H8, F8>>
      [] m.Type = QueenSideCastle /\ m.From = E8 -> <<A8, D8>>
      [] OTHER -> <<0, 0>>

CastlingRightsLost(m) ==
    IF m.From = E1 THEN {WhiteKingSideCastle, WhiteQueenSideCastle}
    ELSE IF m.From = A1 \/ m.To = A1 THEN {WhiteQueenSideCastle}
    ELSE IF m.From = H1 \/ m.To = H1 THEN {WhiteKingSideCastle}
    ELSE IF m.From = E8 THEN {BlackKingSideCastle, BlackQueenSideCastle}
    ELSE IF m.From = A8 \/ m.To = A8 THEN {BlackQueenSideCastle}
    ELSE IF m.From = H8 \/ m.To = H8 THEN {BlackKingSideCastle}
    ELSE NoCastlingRights

-----------------------------------------------------------------------------
(* Position: per colour and piece bitboards (NoPiece holds all pieces of   *)
(* the colour), the occupancy (the rotated bitboard; its three rotations   *)
(* hold the same occupancy in other bit orders), castling and en passant.  *)

EmptyPosition(castling, ep) ==
    [pieces |-> [c \in Colors |-> [p \in Pieces \cup {NoPiece} |-> {}]],
     rot |-> {}, castling |-> castling, enpassant |-> ep]

xor(p, sq, color, piece) ==
    LET p1 == [p EXCEPT !.rot = SymDiff(@, BitMask(sq)),
                        !.pieces[color][NoPiece] = SymDiff(@, BitMask(sq))]
    IN  [p1 EXCEPT !.pieces[color][piece] = SymDiff(@, BitMask(sq))]

RECURSIVE Place(_, _)
Place(p, placements) ==
    IF placements = <<>> THEN p
    ELSE LET x == Head(placements) IN Place(xor(p, x[1], x[2], x[3]), Tail(placements))

(* NewPosition; the placements of the model are on distinct squares. *)
NewPosition(placements, castling, ep) == Place(EmptyPosition(castling, ep), placements)

IsEmpty(p, sq) == sq \notin p.rot

PieceOn(p, c, sq) ==
    LET found == {i \in 1..6 : sq \in p.pieces[c][PieceOrder[i]]}
    IN  IF found = {} THEN NoPiece ELSE PieceOrder[MinOf(found)]

(* Position.Square: colour, piece and ok. *)
SquareOf(p, sq) ==
    IF IsEmpty(p, sq) THEN [c |-> White, piece |-> NoPiece, ok |-> FALSE]
    ELSE IF sq \in p.pieces[White][NoPiece] /\ PieceOn(p, White, sq) # NoPiece
         THEN [c |-> White, piece |-> PieceOn(p, White, sq), ok |-> TRUE]
    ELSE IF sq \in p.pieces[Black][NoPiece] /\ PieceOn(p, Black, sq) # NoPiece
         THEN [c |-> Black, piece |-> PieceOn(p, Black, sq), ok |-> TRUE]
    ELSE [c |-> White, piece |-> NoPiece, ok |-> FALSE]

IsAttacked(p, c, sq) ==
    LET opp == Opponent(c) IN
    \/ \E i \in 1..5 :
          LET piece == KingQueenRookKnightBishop[i] IN
          /\ p.pieces[opp][piece] # {}
          /\ Attackboard(p.rot, sq, piece) \cap p.pieces[opp][piece] # {}
    \/ sq \in PawnCaptureboard(opp, p.pieces[opp][Pawn])

IsChecked(p, c) ==
    LET pos == LastPopSquare(p.pieces[c][King])
    IN  IF pos # NumSquares THEN IsAttacked(p, c, pos) ELSE FALSE

whiteSquareMask == {sq \in Squares : sq % 2 = 1}

HasInsufficientMaterial(p) ==
    LET n == PopCount(p.rot) IN
    CASE n = 2 -> TRUE
      [] n = 3 -> PopCount(p.pieces[White][Knight] \cup p.pieces[Black][Knight]
                           \cup p.pieces[White][Bishop] \cup p.pieces[Black][Bishop]) = 1
      [] n = 4 -> LET bishops == p.pieces[White][Bishop] \cup p.pieces[Black][Bishop]
                  IN  PopCount(bishops) = 2 /\ PopCount(whiteSquareMask \cap bishops) # 1
      [] OTHER -> FALSE

safeCastlingSquares(c, t) ==
    IF c = White
    THEN CASE t = KingSideCastle -> {E1, F1}
           [] t = QueenSideCastle -> {E1, D1}
           [] OTHER -> {}
    ELSE CASE t = KingSideCastle -> {E8, F8}
           [] t = QueenSideCastle -> {E8, D8}
           [] OTHER -> {}

(* Position.Move: the position after the move and whether it is legal. *)
PositionMove(p, m) ==
    LET sqr == SquareOf(p, m.From)
        turn == sqr.c
        opp == Opponent(turn)
        r1 == xor(p, m.From, turn, sqr.piece)
        r2 == IF IsCapture(m) THEN xor(r1, m.To, opp, m.Capture) ELSE r1
        piece == IF IsPromotion(m) THEN m.Promotion ELSE sqr.piece
        r3 == xor(r2, m.To, turn, piece)
        rook == CastlingRookMove(m)
        r4 == CASE m.Type = EnPassant -> xor(r3, EnPassantCapture(m), opp, Pawn)
                [] m.Type \in {KingSideCastle, QueenSideCastle} ->
                       xor(xor(r3, rook[1], turn, Rook), rook[2], turn, Rook)
                [] OTHER -> r3
        r5 == [r4 EXCEPT !.enpassant = EnPassantTarget(m),
                         !.castling = @ \ CastlingRightsLost(m)]
    IN  IF ~sqr.ok THEN [ok |-> FALSE, pos |-> p]
        ELSE IF /\ m.Type \in {KingSideCastle, QueenSideCastle}
                /\ \E sq \in safeCastlingSquares(turn, m.Type) : IsAttacked(p, turn, sq)
             THEN [ok |-> FALSE, pos |-> p]
        ELSE IF IsChecked(r5, turn) THEN [ok |-> FALSE, pos |-> p]
        ELSE [ok |-> TRUE, pos |-> r5]

-----------------------------------------------------------------------------
(* Pseudo-legal move generation, in the order of the code. *)

captureAt(p, sq, turn) == PieceOn(p, Opponent(turn), sq)

emitMove(p, turn, t, piece, from, attackboard) ==
    LET tos == ToSquares(attackboard) IN
    [i \in 1..Len(tos) |->
        Move(t, from, tos[i], piece, NoPiece,
             IF t = Capture THEN captureAt(p, tos[i], turn) ELSE NoPiece)]

emitPromo(p, turn, t, piece, from, attackboard) ==
    LET tos == ToSquares(attackboard) IN
    Flatten([i \in 1..Len(tos) |->
        [j \in 1..4 |->
            Move(t, from, tos[i], piece, QueenRookKnightBishop[j],
                 IF t = CapturePromotion THEN captureAt(p, tos[i], turn) ELSE NoPiece)]])

whiteKingSideCastlingMask == {G1, F1}
whiteQueenSideCastlingMask == {B1, C1, D1}
blackKingSideCastlingMask == {G8, F8}
blackQueenSideCastlingMask == {B8, C8, D8}

PseudoLegalMoves(p, turn) ==
    LET mask == Squares \ p.pieces[turn][NoPiece]
        captures == p.pieces[Opponent(turn)][NoPiece]
        moves == Squares \ captures
        jumps == PawnJumpRank(turn)
        promos == PawnPromotionRank(turn)
        officer(piece) ==
            LET froms == ToSquares(p.pieces[turn][piece]) IN
            Flatten([i \in 1..Len(froms) |->
                LET attackboard == Attackboard(p.rot, froms[i], piece) \cap mask IN
                emitMove(p, turn, Normal, piece, froms[i], attackboard \cap moves)
                \o emitMove(p, turn, Capture, piece, froms[i], attackboard \cap captures)])
        pawnFroms == ToSquares(p.pieces[turn][Pawn])
        pawn(from) ==
            LET origin == BitMask(from)
                captureboard == PawnCaptureboard(turn, origin) \cap mask
                pushboard == PawnMoveboard(p.rot, turn, origin)
                jumpboard == PawnMoveboard(p.rot, turn, pushboard) \cap jumps
            IN  emitMove(p, turn, Capture, Pawn, from, (captureboard \cap captures) \ promos)
                \o emitMove(p, turn, Push, Pawn, from, pushboard \ promos)
                \o emitMove(p, turn, Jump, Pawn, from, jumpboard)
                \o emitPromo(p, turn, CapturePromotion, Pawn, from, captureboard \cap captures \cap promos)
                \o emitPromo(p, turn, Promotion, Pawn, from, pushboard \cap promos)
                \o (IF p.enpassant # ZeroSquare
                    THEN emitMove(p, turn, EnPassant, Pawn, from, captureboard \cap BitMask(p.enpassant))
                    ELSE <<>>)
        kingMoves ==
            IF p.pieces[turn][King] = EmptyBitboard THEN <<>>
            ELSE
            LET from == LastPopSquare(p.pieces[turn][King])
                attackboard == KingAttackboard(from) \cap mask
                castle(right, between, corner, t, to) ==
                    IF /\ IsAllowed(p.castling, right)
                       /\ between \cap p.rot = {}
                       /\ p.pieces[turn][Rook] \cap BitMask(corner) # {}
                    THEN emitMove(p, turn, t, King, from, BitMask(to))
                    ELSE <<>>
            IN  emitMove(p, turn, Normal, King, from, attackboard \cap moves)
                \o emitMove(p, turn, Capture, King, from, attackboard \cap captures)
                \o (IF turn = White
                    THEN castle(WhiteKingSideCastle, whiteKingSideCastlingMask, H1, KingSideCastle, G1)
                         \o castle(WhiteQueenSideCastle, whiteQueenSideCastlingMask, A1, QueenSideCastle, C1)
                    ELSE castle(BlackKingSideCastle, blackKingSideCastlingMask, H8, KingSideCastle, G8)
                         \o castle(BlackQueenSideCastle, blackQueenSideCastlingMask, A8, QueenSideCastle, C8))
    IN  officer(Queen) \o officer(Rook) \o officer(Knight) \o officer(Bishop)
        \o Flatten([i \in 1..Len(pawnFroms) |-> pawn(pawnFroms[i])])
        \o kingMoves

LegalMoves(p, turn) ==
    LET ok(m) == PositionMove(p, m).ok IN SelectSeq(PseudoLegalMoves(p, turn), ok)

-----------------------------------------------------------------------------
(* Zobrist hashing. The table holds independent pseudo-random 64-bit       *)
(* values; a hash is modelled as the set of table entries whose xor it is  *)
(* (entries xored twice cancel). enpassant[sq] is zero, so contributes     *)
(* nothing, unless sq is on rank 3 or 6.                                    *)

zpieces(c, p, sq) == {<<"pieces", c, p, sq>>}
zcastling(c) == {<<"castling", c>>}
zenpassant(sq) == IF Rank(sq) = Rank3 \/ Rank(sq) = Rank6 THEN {<<"enpassant", sq>>} ELSE {}
zturn(c) == {<<"turn", c>>}

RECURSIVE XorAll(_)
XorAll(hs) == IF hs = <<>> THEN {} ELSE SymDiff(Head(hs), XorAll(Tail(hs)))

ZobristHash(pos, turn) ==
    LET occupied == ToSquares(pos.rot)
        placed == [i \in 1..Len(occupied) |->
                      LET s == SquareOf(pos, occupied[i])
                      IN  IF s.ok THEN zpieces(s.c, s.piece, occupied[i]) ELSE {}]
    IN  XorAll(placed
               \o <<zcastling(pos.castling)>>
               \o <<IF pos.enpassant # ZeroSquare THEN zenpassant(pos.enpassant) ELSE {}>>
               \o <<zturn(turn)>>)

ZobristMoveCastling(pos, m) == zcastling(pos.castling \cap CastlingRightsLost(m))

ZobristMove(h, pos, m) ==
    LET turn == SquareOf(pos, m.From).c
        opp == Opponent(turn)
        rook == CastlingRookMove(m)
        moved ==
            CASE m.Type = Capture ->
                     <<zpieces(opp, m.Capture, m.To), zpieces(turn, m.Piece, m.To)>>
              [] m.Type = Promotion -> <<zpieces(turn, m.Promotion, m.To)>>
              [] m.Type = CapturePromotion ->
                     <<zpieces(opp, m.Capture, m.To), zpieces(turn, m.Promotion, m.To)>>
              [] m.Type = EnPassant ->
                     <<zpieces(turn, m.Piece, m.To), zpieces(opp, Pawn, EnPassantCapture(m))>>
              [] m.Type \in {KingSideCastle, QueenSideCastle} ->
                     <<zpieces(turn, m.Piece, m.To), zpieces(turn, Rook, rook[1]),
                       zpieces(turn, Rook, rook[2])>>
              [] OTHER -> <<zpieces(turn, m.Piece, m.To)>>
    IN  XorAll(<<h, zcastling(pos.castling),
                 IF pos.enpassant # ZeroSquare THEN zenpassant(pos.enpassant) ELSE {},
                 zturn(turn),
                 zpieces(turn, m.Piece, m.From)>>
               \o moved
               \o <<ZobristMoveCastling(pos, m), zenpassant(EnPassantTarget(m)), zturn(opp)>>)

-----------------------------------------------------------------------------
(* Board: position, metadata and history chain. Nodes live in a heap        *)
(* (a sequence indexed by node identity); NoNode is the nil pointer.        *)

repetition3Limit == 3
repetition5Limit == 5
noprogressPlyLimit == 100

Unknown == "Unknown"
Undecided == "Undecided"
WhiteWins == "WhiteWins"
BlackWins == "BlackWins"
Draw == "Draw"

NoReason == ""
Checkmate == "Checkmate"
Stalemate == "Stalemate"
Repetition3 == "3-Fold Repetition"
Repetition5 == "5-Fold Repetition"
NoProgress == "No progress"
InsufficientMaterial == "Insufficient Material"

Result(outcome, reason) == [Outcome |-> outcome, Reason |-> reason]
Loss(c) == IF c = White THEN BlackWins ELSE WhiteWins

NoNode == 0

node(pos, hash, noprogress, prev) ==
    [pos |-> pos, hash |-> hash, noprogress |-> noprogress, next |-> NoMove, prev |-> prev]

(* The repetitions map is only ever read by key, a missing key reading as  *)
(* zero: it is kept as the function of its non-zero counts.                *)
Count(repetitions, h) == IF h \in DOMAIN repetitions THEN repetitions[h] ELSE 0
SetCount(repetitions, h, v) ==
    [k \in (DOMAIN repetitions \cup {h}) \ (IF v = 0 THEN {h} ELSE {}) |->
        IF k = h THEN v ELSE repetitions[k]]

(* A board operation maps (heap, board) to (heap, board, outputs). *)

NewBoard(heap, pos, turn, noprogress, fullmoves) ==
    LET current == node(pos, ZobristHash(pos, turn), noprogress, NoNode) IN
    [heap |-> Append(heap, current),
     board |-> [repetitions |-> SetCount(<<>>, current.hash, 1),
                fullmoves |-> fullmoves,
                turn |-> turn,
                result |-> Result(Unknown, NoReason),
                current |-> Len(heap) + 1]]

(* A fork that shares the current node instead of copying it. *)
ForkSharingCurrent(heap, b) == [heap |-> Append(heap, heap[b.current]), board |-> b]

Fork(heap, b) ==
    LET cur == heap[b.current] IN
    [heap |-> Append(heap, node(cur.pos, cur.hash, cur.noprogress, cur.prev)),
     board |-> [repetitions |-> b.repetitions,
                fullmoves |-> b.fullmoves,
                turn |-> b.turn,
                result |-> b.result,
                current |-> Len(heap) + 1]]

(* A counter that is reset by captures only. *)
updateNoProgressOnCapture(old, m) == IF IsCapture(m) THEN 0 ELSE old + 1

updateNoProgress(old, m) == IF m.Type # Normal THEN 0 ELSE old + 1

RECURSIVE identicalPositionLoop(_, _, _, _, _, _, _)
identicalPositionLoop(heap, n, turn, limit, i, tmp, t) ==
    IF i < limit /\ tmp # NoNode
    THEN (IF heap[tmp].hash = heap[n].hash /\ turn = t /\ heap[tmp].pos = heap[n].pos
          THEN 1 ELSE 0)
         + identicalPositionLoop(heap, n, turn, limit, i + 1, heap[tmp].prev, Opponent(t))
    ELSE 0

identicalPositionCount(heap, b, n, turn, limit) ==
    1 + identicalPositionLoop(heap, n, turn, limit, 1, heap[n].prev, Opponent(b.turn))

(* (3) Determine if draw condition applies. *)
pushDraw(heap, b, m, n, actual) ==
    LET r1 == IF Count(b.repetitions, n.hash) >= repetition3Limit
              THEN IF actual >= repetition5Limit THEN Result(Draw, Repetition5)
                   ELSE IF actual >= repetition3Limit THEN Result(Draw, Repetition3)
                   ELSE b.result
              ELSE b.result
    IN  IF /\ \/ m.Type = Capture
              \/ /\ m.Type \in {CapturePromotion, Promotion}
                 /\ m.Promotion \in {Bishop, Knight}
           /\ HasInsufficientMaterial(n.pos)
        THEN Result(Draw, InsufficientMaterial)
        ELSE IF n.noprogress >= noprogressPlyLimit THEN Result(Draw, NoProgress)
        ELSE r1

(* (2) Update board-level metadata. *)
pushMetadata(heap, b, m, n) ==
    [ok |-> TRUE,
     heap |-> heap,
     board |-> [b EXCEPT !.result =
                   pushDraw(heap, b, m, n,
                            identicalPositionCount(heap, b, b.current, b.turn, n.noprogress))]]

(* (1) Move is legal. Create new node. *)
pushNode(heap, b, m, n) ==
    pushMetadata(Append([heap EXCEPT ![b.current].next = m], n),
                 [b EXCEPT !.current = Len(heap) + 1,
                           !.turn = Opponent(b.turn),
                           !.repetitions = SetCount(@, n.hash, Count(@, n.hash) + 1),
                           !.fullmoves = IF b.turn = Black THEN @ + 1 ELSE @],
                 m, n)

pushMoved(heap, b, m, cur, moved) ==
    IF ~moved.ok
    THEN [ok |-> FALSE, heap |-> heap, board |-> b]
    ELSE pushNode(heap, b, m,
                  node(moved.pos, ZobristMove(cur.hash, cur.pos, m),
                       updateNoProgress(cur.noprogress, m), b.current))

(* A push that refuses every board whose result is decided, draws too. *)
PushMoveRefusingDraws(heap, b, m) ==
    IF b.result.Outcome \notin {Unknown, Undecided}
    THEN [ok |-> FALSE, heap |-> heap, board |-> b]
    ELSE pushMoved(heap, b, m, heap[b.current], PositionMove(heap[b.current].pos, m))

PushMove(heap, b, m) ==
    IF b.result.Reason = Checkmate \/ b.result.Reason = Stalemate
    THEN [ok |-> FALSE, heap |-> heap, board |-> b]
    ELSE pushMoved(heap, b, m, heap[b.current], PositionMove(heap[b.current].pos, m))

(* A pop that forgets to decrement the repetition count. *)
PopMoveKeepingCount(heap, b) ==
    LET prev == heap[b.current].prev
        turn == Opponent(b.turn)
    IN  IF prev = NoNode
        THEN [ok |-> FALSE, m |-> NoMove, heap |-> heap, board |-> b]
        ELSE [ok |-> TRUE,
              m |-> heap[prev].next,
              heap |-> [heap EXCEPT ![prev].next = NoMove],
              board |-> [b EXCEPT !.turn = turn,
                                  !.result = Result(Undecided, NoReason),
                                  !.fullmoves = IF turn = Black THEN @ - 1 ELSE @,
                                  !.current = prev]]

PopMove(heap, b) ==
    LET prev == heap[b.current].prev
        turn == Opponent(b.turn)
    IN  IF prev = NoNode
        THEN [ok |-> FALSE, m |-> NoMove, heap |-> heap, board |-> b]
        ELSE [ok |-> TRUE,
              m |-> heap[prev].next,
              heap |-> [heap EXCEPT ![prev].next = NoMove],
              board |-> [b EXCEPT !.turn = turn,
                                  !.repetitions = SetCount(@, heap[b.current].hash,
                                                           Count(@, heap[b.current].hash) - 1),
                                  !.result = Result(Undecided, NoReason),
                                  !.fullmoves = IF turn = Black THEN @ - 1 ELSE @,
                                  !.current = prev]]

Adjudicate(b, result) == [b EXCEPT !.result = result]

AdjudicateNoLegalMoves(heap, b) ==
    IF IsChecked(heap[b.current].pos, b.turn)
    THEN Result(Loss(b.turn), Checkmate)
    ELSE Result(Draw, Stalemate)

LastMove(heap, b) ==
    IF heap[b.current].prev # NoNode
    THEN [m |-> heap[heap[b.current].prev].next, ok |-> TRUE]
    ELSE [m |-> NoMove, ok |-> FALSE]

(* HasCastled: the loop over the earlier nodes; && binds tighter than ||,  *)
(* so the test is (t == c && queen side) || king side.                     *)
RECURSIVE hasCastledLoop(_, _, _, _)
hasCastledLoop(heap, c, t, cur) ==
    IF cur = NoNode THEN FALSE
    ELSE IF \/ (t = c /\ heap[cur].next.Type = QueenSideCastle)
            \/ heap[cur].next.Type = KingSideCastle
         THEN TRUE
    ELSE hasCastledLoop(heap, c, Opponent(t), heap[cur].prev)

HasCastled(heap, b, c) ==
    hasCastledLoop(heap, c, Opponent(b.turn), heap[b.current].prev)

-----------------------------------------------------------------------------
(* Boards under test: the positions games start from and the moves the     *)
(* client tries on them.                                                    *)

MaxPly == 16
ExamplePly == 10
ShortPly == 3
MaxForkPly == 1
MaxForkPop == 1

BackRank == <<Rook, Knight, Bishop, King, Queen, Bishop, Knight, Rook>>

Initial ==
    NewPosition([i \in 1..8 |-> <<NewSquare(i - 1, Rank1), White, BackRank[i]>>]
                \o [i \in 1..8 |-> <<H2 + i - 1, White, Pawn>>]
                \o [i \in 1..8 |-> <<H7 + i - 1, Black, Pawn>>]
                \o [i \in 1..8 |-> <<NewSquare(i - 1, Rank8), Black, BackRank[i]>>],
                FullCastingRights, ZeroSquare)

KnightsPosition ==
    NewPosition(<<<<E1, White, King>>, <<G1, White, Knight>>,
                  <<E8, Black, King>>, <<G8, Black, Knight>>>>,
                NoCastlingRights, ZeroSquare)

QueenPosition ==
    NewPosition(<<<<B6, White, King>>, <<H7, White, Queen>>, <<A8, Black, King>>>>,
                NoCastlingRights, ZeroSquare)

PromotionPosition ==
    NewPosition(<<<<C3, White, King>>, <<H7, White, Pawn>>,
                  <<A1, Black, King>>, <<G8, Black, Knight>>>>,
                NoCastlingRights, ZeroSquare)

CastlingPosition ==
    NewPosition(<<<<E1, White, King>>, <<H1, White, Rook>>, <<A1, White, Rook>>,
                  <<E5, White, Pawn>>,
                  <<E8, Black, King>>, <<H8, Black, Rook>>, <<A8, Black, Rook>>,
                  <<D7, Black, Pawn>>>>,
                FullCastingRights, ZeroSquare)

Game(pos, turn, noprogress, fullmoves, inputs, plies) ==
    [pos |-> pos, turn |-> turn, noprogress |-> noprogress, fullmoves |-> fullmoves,
     inputs |-> inputs, plies |-> plies]

KnightShuffle == {<<G1, F3>>, <<F3, G1>>, <<G8, F6>>, <<F6, G8>>}

Games ==
    {Game(KnightsPosition, White, np, 1, KnightShuffle, MaxPly) : np \in {0, 1}}
    \cup
    {Game(KnightsPosition, White, noprogressPlyLimit - 2, 1, KnightShuffle, ShortPly)}
    \cup
    {Game(Initial, White, 0, 1,
          {<<E2, E4>>, <<E7, E5>>, <<G1, F3>>, <<B8, C6>>, <<F3, G1>>, <<C6, B8>>},
          ExamplePly),
     Game(Initial, White, 0, 1,
          {<<E2, E3>>, <<B8, C6>>, <<G1, F3>>, <<C6, B8>>, <<F3, G1>>},
          ExamplePly),
     Game(QueenPosition, White, 0, 1,
          {<<H7, H8>>, <<H7, C7>>, <<H7, G7>>, <<A8, B8>>, <<A8, A7>>}, ShortPly),
     Game(PromotionPosition, White, 0, 1,
          {<<H7, G8>>, <<H7, H8>>, <<A1, A2>>, <<G8, F6>>, <<C3, B2>>}, ShortPly),
     Game(CastlingPosition, White, 0, 1,
          {<<E1, G1>>, <<E1, C1>>, <<E8, G8>>, <<E8, C8>>, <<D7, D5>>, <<E5, D6>>,
           <<A1, A8>>, <<H8, H1>>, <<E5, E6>>},
          ShortPly)}

boardVars == <<nodes, boards, game, fork, op>>

NoBoard ==
    [repetitions |-> <<>>, fullmoves |-> 0, turn |-> White,
     result |-> Result(Unknown, NoReason), current |-> NoNode]

NoFork == [forked |-> FALSE, ply |-> 0, pushes |-> 0, below |-> FALSE]

(* The last operation, its outcome, and whether it directly follows a      *)
(* successful PushMove on the same board.                                  *)
Op(name, who, ok, m) ==
    [name |-> name, who |-> who, ok |-> ok, m |-> m,
     pushed |-> op.name = "push" /\ op.ok /\ op.who = who]

RECURSIVE Chain(_, _)
Chain(h, n) == IF n = NoNode THEN <<>> ELSE <<n>> \o Chain(h, h[n].prev)

Range(seq) == {seq[i] : i \in 1..Len(seq)}
Live(h, bs) == UNION {Range(Chain(h, bs[w].current)) : w \in DOMAIN bs}

(* Nodes no board can reach any more are garbage: the youngest are dropped. *)
RECURSIVE Collect(_, _)
Collect(h, bs) ==
    IF h # <<>> /\ Len(h) \notin Live(h, bs)
    THEN Collect(SubSeq(h, 1, Len(h) - 1), bs)
    ELSE h

Plies(h, b) == Len(Chain(h, b.current)) - 1

Candidates(h, b) ==
    IF b.current = NoNode THEN {}
    ELSE LET tries == PseudoLegalMoves(h[b.current].pos, b.turn)
         IN  {tries[i] : i \in {j \in 1..Len(tries) :
                                   <<tries[j].From, tries[j].To>> \in game.inputs}}

OnlyBoard == UNCHANGED <<zobrist, score, tt, conc, search, iter, ml, engine>>

InitBoard ==
    /\ zobrist = <<>> /\ score = <<>> /\ tt = <<>> /\ conc = <<>> /\ search = <<>> /\ iter = <<>>
    /\ ml = <<>> /\ engine = <<>>
    /\ game \in Games
    /\ LET nb == NewBoard(<<>>, game.pos, game.turn, game.noprogress, game.fullmoves)
       IN  /\ nodes = nb.heap
           /\ boards = [w \in {"b", "f"} |-> IF w = "b" THEN nb.board ELSE NoBoard]
    /\ fork = NoFork
    /\ op = [name |-> "new", who |-> "b", ok |-> TRUE, m |-> NoMove, pushed |-> FALSE]

DoPush(w, m) ==
    /\ boards[w].current # NoNode
    /\ Plies(nodes, boards[w]) < game.plies
    /\ w = "f" => fork.pushes < MaxForkPly
    /\ w = "b" => ~fork.forked
    /\ LET r == PushMove(nodes, boards[w], m)
       IN  /\ nodes' = r.heap
           /\ boards' = [boards EXCEPT ![w] = r.board]
           /\ op' = Op("push", w, r.ok, m)
           /\ fork' = IF w = "f" /\ r.ok
                      THEN [fork EXCEPT !.ply = @ + 1, !.pushes = @ + 1] ELSE fork
    /\ UNCHANGED game
    /\ OnlyBoard

DoPop(w) ==
    /\ boards[w].current # NoNode
    /\ w = "b" => ~fork.forked
    /\ w = "f" => fork.ply > -MaxForkPop
    /\ LET r == PopMove(nodes, boards[w])
           bs == [boards EXCEPT ![w] = r.board]
       IN  /\ nodes' = Collect(r.heap, bs)
           /\ boards' = bs
           /\ op' = Op("pop", w, r.ok, r.m)
           /\ fork' = IF w = "f" /\ r.ok
                      THEN [fork EXCEPT !.ply = @ - 1, !.below = @ \/ fork.ply = 0]
                      ELSE fork
    /\ UNCHANGED game
    /\ OnlyBoard

DoAdjudicate(w) ==
    /\ boards[w].current # NoNode
    /\ w = "b" => ~fork.forked
    /\ LegalMoves(nodes[boards[w].current].pos, boards[w].turn) = <<>>
    /\ boards' = [boards EXCEPT ![w] = Adjudicate(@, AdjudicateNoLegalMoves(nodes, @))]
    /\ op' = Op("adjudicate", w, TRUE, NoMove)
    /\ UNCHANGED <<nodes, game, fork>>
    /\ OnlyBoard

DoFork ==
    /\ ~fork.forked
    /\ LET r == Fork(nodes, boards["b"])
       IN  /\ nodes' = r.heap
           /\ boards' = [boards EXCEPT !["f"] = r.board]
    /\ fork' = [NoFork EXCEPT !.forked = TRUE]
    /\ op' = Op("fork", "b", TRUE, NoMove)
    /\ UNCHANGED game
    /\ OnlyBoard

NextBoard ==
    \/ \E w \in {"b", "f"} : \E m \in Candidates(nodes, boards[w]) : DoPush(w, m)
    \/ \E w \in {"b", "f"} : DoPop(w)
    \/ \E w \in {"b", "f"} : DoAdjudicate(w)
    \/ DoFork

vars == <<boardVars, zobrist, score, tt, conc, search, iter, ml, engine>>

SpecBoard == InitBoard /\ [][NextBoard]_vars

-----------------------------------------------------------------------------
(* Properties of the board history. *)

Who == {"b", "f"}
Present(w) == boards[w].current # NoNode
Current(w) == nodes[boards[w].current]

(* How often the current position, with the same side to move, occurs in   *)
(* the history chain of a board, the current node included.                *)
Occurrences(h, b) ==
    LET chain == Chain(h, b.current)
    IN  Cardinality({i \in 1..Len(chain) :
                        /\ (i - 1) % 2 = 0
                        /\ h[chain[i]].pos = h[b.current].pos})

(* The moves from the root to the current node, as (from, to) pairs. *)
RECURSIVE History(_, _)
History(h, n) ==
    IF h[n].prev = NoNode THEN <<>>
    ELSE Append(History(h, h[n].prev), <<h[h[n].prev].next.From, h[h[n].prev].next.To>>)

Example ==
    <<<<E2, E4>>, <<E7, E5>>, <<G1, F3>>, <<B8, C6>>, <<F3, G1>>, <<C6, B8>>,
      <<G1, F3>>, <<B8, C6>>, <<F3, G1>>, <<C6, B8>>>>

JustPushed(w) == Present(w) /\ op.name = "push" /\ op.who = w /\ op.ok

(* C1: right after a push that makes the current position occur for the    *)
(* third time in the history chain (the root and those following a capture *)
(* or pawn move included) the result is Draw by Repetition3, after the     *)
(* fifth occurrence Draw by Repetition5; and the moves e2e4 e7e5 g1f3 b8c6 *)
(* f3g1 c6b8 g1f3 b8c6 f3g1 c6b8 from the starting position end in Draw by *)
(* Repetition3.                                                            *)
C1_RepetitionIsAdjudicated ==
    \A w \in Who :
        (JustPushed(w) /\ Current(w).noprogress < noprogressPlyLimit) =>
            /\ Occurrences(nodes, boards[w]) >= repetition5Limit
                   => boards[w].result = Result(Draw, Repetition5)
            /\ Occurrences(nodes, boards[w]) \in repetition3Limit..(repetition5Limit - 1)
                   => boards[w].result = Result(Draw, Repetition3)
            /\ (game.pos = Initial /\ History(nodes, boards[w].current) = Example)
                   => boards[w].result = Result(Draw, Repetition3)

(* What a client can observe of a board: its fields and every history node *)
(* reachable from it.                                                      *)
View(h, b) ==
    [board |-> b,
     chain |-> [i \in 1..Len(Chain(h, b.current)) |-> h[Chain(h, b.current)[i]]],
     last |-> LastMove(h, b)]

ForkActs == op'.who = "f" /\ op'.name \in {"push", "pop", "adjudicate"}

(* C9 as stated: no PushMove, PopMove or adjudication on the fork changes  *)
(* a history node reachable from the source board or the board's state.    *)
C9_ForkNeverTouchesSource ==
    [][ForkActs => View(nodes', boards'["b"]) = View(nodes, boards["b"])]_vars

(* C9, amended: as long as the fork has not popped below the point where   *)
(* it was forked, no PushMove, PopMove or adjudication on it changes a     *)
(* history node reachable from the source board or the board's state.      *)
C9_ForkAboveForkPoint ==
    [][(ForkActs /\ ~fork'.below) => View(nodes', boards'["b"]) = View(nodes, boards["b"])]_vars

C9_Witness ==
    /\ fork.forked /\ ~fork.below
    /\ op.who = "f" /\ op.name = "pop" /\ op.ok
    /\ Current("b").prev # NoNode

(* C10: whenever PushMove(m) returns true, an immediately following        *)
(* PopMove returns (m, true) and restores position, hash, side to move,    *)
(* full-move count, no-progress count and all repetition counts, leaving   *)
(* the result Undecided; PopMove on a board whose history holds no move    *)
(* returns false and changes nothing.                                      *)
C10_PopUndoesPush ==
    \A w \in Who : Present(w) =>
        /\ \A m \in Candidates(nodes, boards[w]) :
              LET pushed == PushMove(nodes, boards[w], m)
                  popped == PopMove(pushed.heap, pushed.board)
              IN  pushed.ok =>
                     /\ popped.ok /\ popped.m = m
                     /\ popped.board = [boards[w] EXCEPT !.result = Result(Undecided, NoReason)]
                     /\ SubSeq(popped.heap, 1, Len(nodes)) = nodes
        /\ Current(w).prev = NoNode =>
              LET popped == PopMove(nodes, boards[w])
              IN  ~popped.ok /\ popped.heap = nodes /\ popped.board = boards[w]

C10_Witness ==
    \E w \in Who :
        /\ Present(w) /\ op.who = w /\ op.name = "pop" /\ op.ok /\ op.pushed
        /\ op.m.Type = Capture
        /\ boards[w].result = Result(Undecided, NoReason)

-----------------------------------------------------------------------------
(* Pushes the board refuses. The client tries the moves generated from the *)
(* current position and, again, moves it generated at the start of the     *)
(* game whose piece has left its square since.                             *)

PushPly == 9

PushGames ==
    {Game(KnightsPosition, White, noprogressPlyLimit - 1, 1, KnightShuffle, ShortPly),
     Game(KnightsPosition, White, 0, 1, KnightShuffle, PushPly),
     Game(QueenPosition, White, 0, 1,
          {<<H7, H8>>, <<H7, C7>>, <<H7, G7>>, <<A8, B8>>, <<A8, A7>>, <<B6, A6>>}, ShortPly),
     Game(PromotionPosition, White, 0, 1,
          {<<H7, G8>>, <<H7, H8>>, <<A1, A2>>, <<A1, B2>>, <<G8, F6>>, <<C3, B2>>}, ShortPly),
     Game(CastlingPosition, White, 0, 1,
          {<<E1, G1>>, <<E1, C1>>, <<E8, G8>>, <<E8, C8>>, <<H8, H2>>, <<A8, A2>>,
           <<A1, A8>>, <<H1, H8>>, <<E1, F1>>},
          ShortPly)}

Generated(pos, turn) ==
    LET tries == PseudoLegalMoves(pos, turn)
    IN  {tries[i] : i \in {j \in 1..Len(tries) :
                              <<tries[j].From, tries[j].To>> \in game.inputs}}

Stale(h, b) ==
    {m \in Generated(game.pos, White) \cup Generated(game.pos, Black) :
        IsEmpty(h[b.current].pos, m.From)}

Tries(h, b) == Candidates(h, b) \cup Stale(h, b)

InitPush ==
    /\ zobrist = <<>> /\ score = <<>> /\ tt = <<>> /\ conc = <<>> /\ search = <<>> /\ iter = <<>>
    /\ ml = <<>> /\ engine = <<>>
    /\ game \in PushGames
    /\ LET nb == NewBoard(<<>>, game.pos, game.turn, game.noprogress, game.fullmoves)
       IN  /\ nodes = nb.heap
           /\ boards = [w \in {"b", "f"} |-> IF w = "b" THEN nb.board ELSE NoBoard]
    /\ fork = NoFork
    /\ op = [name |-> "new", who |-> "b", ok |-> TRUE, m |-> NoMove, pushed |-> FALSE]

NextPush ==
    \/ \E m \in Tries(nodes, boards["b"]) : DoPush("b", m)
    \/ DoPop("b")
    \/ DoAdjudicate("b")

SpecPush == InitPush /\ [][NextPush]_vars

(* Why PushMove must return false for the move m on the board b. *)
Terminal(b) == b.result.Reason \in {Checkmate, Stalemate}
Rejected(h, b, m) == ~PositionMove(h[b.current].pos, m).ok

(* C11: PushMove returns false, and leaves the current node, the side to   *)
(* move, the full-move count, the repetition counts and the result as they *)
(* were, when the result reason is Checkmate or Stalemate and when         *)
(* Position.Move rejects the move; it returns true otherwise, also on a    *)
(* board whose result is a Draw by repetition, no progress or insufficient *)
(* material.                                                               *)
C11_PushFailsCleanly ==
    [][(op'.name = "push" /\ op'.who = "b") =>
          /\ op'.ok = ~(Terminal(boards["b"]) \/ Rejected(nodes, boards["b"], op'.m))
          /\ ~op'.ok => (boards' = boards /\ nodes' = nodes)]_vars

(* A push from a square the piece has left is refused on a board that was  *)
(* pushed once more after its result had become a Draw by NoProgress.      *)
C11_Witness ==
    /\ op.name = "push" /\ ~op.ok
    /\ IsEmpty(Current("b").pos, op.m.From)
    /\ Current("b").noprogress > noprogressPlyLimit
    /\ boards["b"].result = Result(Draw, NoProgress)

(* The castling rights a move takes away: both rights of the side whose     *)
(* king start square it leaves, and the right of every rook start corner   *)
(* it leaves or lands on.                                                  *)
KingRights(sq) ==
    CASE sq = E1 -> {WhiteKingSideCastle, WhiteQueenSideCastle}
      [] sq = E8 -> {BlackKingSideCastle, BlackQueenSideCastle}
      [] OTHER -> NoCastlingRights

CornerRight(sq) ==
    CASE sq = A1 -> {WhiteQueenSideCastle}
      [] sq = H1 -> {WhiteKingSideCastle}
      [] sq = A8 -> {BlackQueenSideCastle}
      [] sq = H8 -> {BlackKingSideCastle}
      [] OTHER -> NoCastlingRights

RightsToLose(m) == KingRights(m.From) \cup CornerRight(m.From) \cup CornerRight(m.To)

(* C19: the position after a move that Position.Move accepted has lost     *)
(* both rights of the side whose king start square the move left and the   *)
(* right of every rook corner the move left or landed on, both corners of  *)
(* a move from corner to corner included, and has kept every other right.  *)
C19_CastlingRightsDrop ==
    [][(op'.name = "push" /\ op'.who = "b" /\ op'.ok) =>
          nodes'[boards'["b"].current].pos.castling
              = Current("b").pos.castling \ RightsToLose(op'.m)]_vars

(* C20: a successful PushMove makes the no-progress counter of the new     *)
(* node 0 when the move type is not Normal and one more than the counter   *)
(* of the node before it when it is Normal, and a counter of at least the  *)
(* limit of 100 leaves the result a Draw, by NoProgress unless this push   *)
(* found insufficient material.                                            *)
C20_NoProgressCounted ==
    [][(op'.name = "push" /\ op'.who = "b" /\ op'.ok) =>
          LET old == Current("b").noprogress
              new == nodes'[boards'["b"].current]
              res == boards'["b"].result
          IN  /\ op'.m.Type # Normal => new.noprogress = 0
              /\ op'.m.Type = Normal => new.noprogress = old + 1
              /\ new.noprogress >= 100 =>
                    /\ res.Outcome = Draw
                    /\ \/ res.Reason = NoProgress
                       \/ /\ res.Reason = InsufficientMaterial
                          /\ HasInsufficientMaterial(new.pos)]_vars

(* The hundredth ply without progress has just been pushed. *)
C20_Witness ==
    /\ op.name = "push" /\ op.who = "b" /\ op.ok /\ op.m.Type = Normal
    /\ Current("b").noprogress = noprogressPlyLimit
    /\ nodes[Current("b").prev].noprogress = noprogressPlyLimit - 1
    /\ boards["b"].result = Result(Draw, NoProgress)

(* A castling move has just reset a counter that was running. *)
C20_Reset ==
    /\ op.name = "push" /\ op.who = "b" /\ op.ok
    /\ op.m.Type \in {KingSideCastle, QueenSideCastle}
    /\ Current("b").noprogress = 0
    /\ nodes[Current("b").prev].noprogress > 0

(* The colour c has castled in the history of the board b: some earlier    *)
(* node was left by a castling move of the king of c that stood there.     *)
Castled(h, b, c) ==
    \E n \in Range(Chain(h, h[b.current].prev)) :
        /\ h[n].next.Type \in {KingSideCastle, QueenSideCastle}
        /\ SquareOf(h[n].pos, h[n].next.From).c = c

(* C21: HasCastled(c) is true iff a move in the history of the board that  *)
(* the colour c made is a king-side or queen-side castle; a castle of the  *)
(* opponent of c does not make it true.                                    *)
C21_HasCastledByColor ==
    \A c \in Colors : HasCastled(nodes, boards["b"], c) <=> Castled(nodes, boards["b"], c)

-----------------------------------------------------------------------------
(* Zobrist hashing of the positions reached from the games' positions: a   *)
(* legal move is made and the hash of the result is computed both ways.    *)

ZobristPly == 2

OnlyZobrist == UNCHANGED <<boardVars, score, tt, conc, search, iter, ml, engine>>

InitZobrist ==
    /\ score = <<>> /\ tt = <<>> /\ conc = <<>> /\ search = <<>> /\ iter = <<>>
    /\ ml = <<>> /\ engine = <<>>
    /\ nodes = <<>> /\ boards = <<>> /\ game = <<>> /\ fork = NoFork /\ op = <<>>
    /\ \E g \in Games, turn \in Colors :
          zobrist = [pos |-> g.pos, turn |-> turn, m |-> NoMove, ply |-> 0,
                     incremental |-> ZobristHash(g.pos, turn),
                     scratch |-> ZobristHash(g.pos, turn)]

ZobristStep(m) ==
    /\ zobrist.ply < ZobristPly
    /\ LET moved == PositionMove(zobrist.pos, m)
       IN  /\ moved.ok
           /\ zobrist' =
                 [pos |-> moved.pos, turn |-> Opponent(zobrist.turn), m |-> m,
                  ply |-> zobrist.ply + 1,
                  incremental |-> ZobristMove(ZobristHash(zobrist.pos, zobrist.turn),
                                              zobrist.pos, m),
                  scratch |-> ZobristHash(moved.pos, Opponent(zobrist.turn))]
    /\ OnlyZobrist

NextZobrist ==
    \E m \in Range(PseudoLegalMoves(zobrist.pos, zobrist.turn)) : ZobristStep(m)

SpecZobrist == InitZobrist /\ [][NextZobrist]_vars

(* C2: for every position and every move Position.Move accepts, with any   *)
(* castling rights, the incremental hash update equals the hash of the     *)
(* resulting position computed from scratch.                               *)
C2_IncrementalIsScratch == zobrist.incremental = zobrist.scratch

-----------------------------------------------------------------------------
(* Scores. Pawns are whole pawns; Mate is an int8.                          *)

Invalid == "Invalid"
Heuristic == "Heuristic"
MateInX == "MateInX"
Inf == "Inf"
NegInf == "NegInf"

Int8(x) == ((x + 128) % 256) - 128

InvalidScore == [Type |-> Invalid, Mate |-> 0, Pawns |-> 0]
ZeroScore == [Type |-> Heuristic, Mate |-> 0, Pawns |-> 0]
InfScore == [Type |-> Inf, Mate |-> 0, Pawns |-> 0]
NegInfScore == [Type |-> NegInf, Mate |-> 0, Pawns |-> 0]

HeuristicScore(pawns) == [Type |-> Heuristic, Mate |-> 0, Pawns |-> pawns]
MateInXScore(mate) == [Type |-> MateInX, Mate |-> mate, Pawns |-> 0]

Negate(s) ==
    CASE s.Type = Heuristic -> HeuristicScore(-s.Pawns)
      [] s.Type = MateInX -> MateInXScore(Int8(-s.Mate))
      [] s.Type = Inf -> NegInfScore
      [] s.Type = NegInf -> InfScore
      [] OTHER -> InvalidScore

Less(s, o) ==
    IF s = o \/ s.Type = Inf \/ o.Type = NegInf THEN FALSE
    ELSE IF s.Type = NegInf \/ o.Type = Inf THEN TRUE
    ELSE IF s.Type = Heuristic /\ o.Type = Heuristic THEN s.Pawns < o.Pawns
    ELSE IF s.Type = Heuristic /\ o.Type = MateInX THEN o.Mate > 0
    ELSE IF s.Type = MateInX /\ o.Type = Heuristic THEN s.Mate < 0
    ELSE IF s.Type = MateInX /\ o.Type = MateInX
         THEN IF s.Mate < 0 \/ o.Mate < 0 THEN s.Mate < o.Mate ELSE s.Mate > o.Mate
    ELSE FALSE

IncrementMateDistance(s) ==
    CASE s.Type = Inf -> MateInXScore(1)
      [] s.Type = NegInf -> MateInXScore(-1)
      [] s.Type = MateInX ->
             IF s.Mate < 0 THEN MateInXScore(Int8(s.Mate - 1)) ELSE MateInXScore(Int8(s.Mate + 1))
      [] OTHER -> s

Max(a, b) == IF Less(a, b) THEN b ELSE a
Min(a, b) == IF Less(a, b) THEN a ELSE b

MaxPawns == 2
MaxMate == 3

Scores ==
    {HeuristicScore(p) : p \in -MaxPawns..MaxPawns}
    \cup {MateInXScore(x) : x \in (-MaxMate..MaxMate) \ {0}}
    \cup {InfScore, NegInfScore}

OnlyScore == UNCHANGED <<boardVars, zobrist, tt, conc, search, iter, ml, engine>>

InitScore ==
    /\ nodes = <<>> /\ boards = <<>> /\ game = <<>> /\ fork = NoFork /\ op = <<>>
    /\ zobrist = <<>> /\ tt = <<>> /\ conc = <<>> /\ search = <<>> /\ iter = <<>>
    /\ ml = <<>> /\ engine = <<>>
    /\ score \in [a : Scores, b : Scores]

ScoreNegate ==
    /\ score' = [a |-> Negate(score.a), b |-> Negate(score.b)]
    /\ OnlyScore

ScoreIncrement ==
    /\ IncrementMateDistance(score.a) \in Scores
    /\ score' = [score EXCEPT !.a = IncrementMateDistance(score.a)]
    /\ OnlyScore

ScoreMax ==
    /\ score' = [score EXCEPT !.a = Max(score.a, score.b)]
    /\ OnlyScore

ScoreMin ==
    /\ score' = [score EXCEPT !.b = Min(score.a, score.b)]
    /\ OnlyScore

NextScore == ScoreNegate \/ ScoreIncrement \/ ScoreMax \/ ScoreMin

SpecScore == InitScore /\ [][NextScore]_vars

(* The order the documentation gives: -inf, then negative mates with the   *)
(* one closer to checkmate smaller, then heuristic scores by pawns, then   *)
(* positive mates with the one closer to checkmate larger, then +inf.      *)
Standing(s) ==
    CASE s.Type = NegInf -> <<0, 0>>
      [] s.Type = MateInX /\ s.Mate < 0 -> <<1, -s.Mate>>
      [] s.Type = Heuristic -> <<2, s.Pawns>>
      [] s.Type = MateInX /\ s.Mate > 0 -> <<3, -s.Mate>>
      [] s.Type = Inf -> <<4, 0>>

Before(s, o) ==
    \/ Standing(s)[1] < Standing(o)[1]
    \/ Standing(s)[1] = Standing(o)[1] /\ Standing(s)[2] < Standing(o)[2]

(* C3: Score.Less orders -inf < M(-1) < M(-2) < H(0) < M(2) < M(1) < +inf: *)
(* among negative mates the one closer to checkmate is the smaller, among  *)
(* positive mates the one closer to checkmate is the larger.               *)
C3_LessIsDocumentedOrder == Less(score.a, score.b) <=> Before(score.a, score.b)

(* C27: negation reverses the order: a.Less(b) exactly when                *)
(* b.Negate().Less(a.Negate()), for mates of one sign as for all other     *)
(* scores.                                                                 *)
C27_NegateReversesLess ==
    Less(score.a, score.b) <=> Less(Negate(score.b), Negate(score.a))

(* Two mate scores of one sign. *)
SameSignMates(a, b) == a.Type = MateInX /\ b.Type = MateInX /\ (a.Mate < 0) = (b.Mate < 0)

(* Outside the mates of one sign negation does reverse the order. *)
C27_ReversedButForMates ==
    ~SameSignMates(score.a, score.b) =>
        (Less(score.a, score.b) <=> Less(Negate(score.b), Negate(score.a)))

-----------------------------------------------------------------------------
(* Transposition table. A slot holds a pointer to an immutable node: the   *)
(* empty sequence is the nil pointer, <<n>> points to node n. Hashes are   *)
(* numbers; the slot of a hash is hash & mask, with mask + 1 slots.        *)

ExactBound == "Exact"
LowerBound == "Lower"

Uint16(x) == x % 65536

nil == <<>>

metadata(bound, move, ply, depth) ==
    [bound |-> bound, from |-> move.From, to |-> move.To, promotion |-> move.Promotion,
     ply |-> Uint16(ply), depth |-> Uint16(depth)]

ttnode(hash, bound, ply, depth, sc, move) ==
    [hash |-> hash, score |-> sc, md |-> metadata(bound, move, ply, depth)]

(* The position of the most significant bit: 63 - bits.LeadingZeros64.     *)
RECURSIVE msb(_)
msb(x) == IF x <= 1 THEN 0 ELSE 1 + msb(x \div 2)

(* Nodes take 32 bytes; the table has the largest power of two of them     *)
(* that fits into size bytes.                                              *)
NewTranspositionTable(size) ==
    [table |-> [k \in 0..(2 ^ (msb(size) - 5) - 1) |-> nil],
     mask |-> 2 ^ (msb(size) - 5) - 1,
     used |-> 0]

Key(t, hash) == hash % (t.mask + 1)

(* A replacement value that forgets to count the depth. *)
valOfPlyOnly(ptr) == IF ptr = nil THEN 0 ELSE ptr[1].md.ply

val(ptr) == IF ptr = nil THEN 0 ELSE Uint16(ptr[1].md.ply + Uint16(ptr[1].md.depth * 2))

NoRead == [bound |-> ExactBound, depth |-> 0, score |-> InvalidScore, move |-> NoMove, ok |-> FALSE]

(* A read that does not compare the full hash. *)
ReadNodeOfAnyHash(ptr, hash) ==
    IF ptr # nil
    THEN [bound |-> ptr[1].md.bound,
          depth |-> ptr[1].md.depth,
          score |-> ptr[1].score,
          move |-> Move(NoType, ptr[1].md.from, ptr[1].md.to, NoPiece, ptr[1].md.promotion, NoPiece),
          ok |-> TRUE]
    ELSE NoRead

ReadNode(ptr, hash) ==
    IF ptr # nil /\ hash = ptr[1].hash
    THEN [bound |-> ptr[1].md.bound,
          depth |-> ptr[1].md.depth,
          score |-> ptr[1].score,
          move |-> Move(NoType, ptr[1].md.from, ptr[1].md.to, NoPiece, ptr[1].md.promotion, NoPiece),
          ok |-> TRUE]
    ELSE NoRead

Read(t, hash) == ReadNode(t.table[Key(t, hash)], hash)

(* Without contention the compare-and-swap of Write succeeds at once. *)
Write(t, hash, bound, ply, depth, sc, move) ==
    LET key == Key(t, hash)
        fresh == <<ttnode(hash, bound, ply, depth, sc, move)>>
        ptr == t.table[key]
    IN  IF val(ptr) > val(fresh)
        THEN [ok |-> FALSE, t |-> t]
        ELSE [ok |-> TRUE,
              t |-> [t EXCEPT !.table[key] = fresh,
                              !.used = IF ptr = nil THEN @ + 1 ELSE @]]

-----------------------------------------------------------------------------
(* One client reading and writing a small table. *)

TTSize == 64
MaxHash == 2
MaxTTPly == 2
MaxTTDepth == 1

Hashes == 0..MaxHash
(* What the client writes: an exact score with a capture-promotion, or a   *)
(* lower bound with a knight move.                                         *)
TTPayloads ==
    {[bound |-> ExactBound, score |-> HeuristicScore(2),
      move |-> Move(CapturePromotion, G7, H8, Pawn, Queen, Rook)],
     [bound |-> LowerBound, score |-> MateInXScore(1),
      move |-> Move(Normal, G1, F3, Knight, NoPiece, NoPiece)]}

TTWrites ==
    {[hash |-> h, bound |-> p.bound, ply |-> ply, depth |-> depth,
      score |-> p.score, move |-> p.move] :
        h \in Hashes, p \in TTPayloads, ply \in 0..MaxTTPly, depth \in 0..MaxTTDepth}

OnlyTT == UNCHANGED <<boardVars, zobrist, score, conc, search, iter, ml, engine>>

InitTT ==
    /\ nodes = <<>> /\ boards = <<>> /\ game = <<>> /\ fork = NoFork /\ op = <<>>
    /\ zobrist = <<>> /\ score = <<>> /\ conc = <<>> /\ search = <<>> /\ iter = <<>>
    /\ ml = <<>> /\ engine = <<>>
    /\ tt = [t |-> NewTranspositionTable(TTSize),
             written |-> [k \in DOMAIN NewTranspositionTable(TTSize).table |-> <<>>],
             last |-> [op |-> "new"]]

(* written remembers, per slot, the arguments of the last Write that       *)
(* returned true; last is the last call, the slot as it found it, and what  *)
(* it returned.                                                            *)
TTWrite(w) ==
    /\ LET r == Write(tt.t, w.hash, w.bound, w.ply, w.depth, w.score, w.move)
           key == Key(tt.t, w.hash)
       IN  tt' = [t |-> r.t,
                  written |-> IF r.ok THEN [tt.written EXCEPT ![key] = <<w>>] ELSE tt.written,
                  last |-> [op |-> "write", args |-> w, before |-> tt.t.table[key], ok |-> r.ok]]
    /\ OnlyTT

TTRead(hash) ==
    /\ tt' = [tt EXCEPT !.last = [op |-> "read", hash |-> hash,
                                  before |-> tt.t.table[Key(tt.t, hash)],
                                  result |-> Read(tt.t, hash)]]
    /\ OnlyTT

NextTT ==
    \/ \E w \in TTWrites : TTWrite(w)
    \/ \E hash \in Hashes : TTRead(hash)

SpecTT == InitTT /\ [][NextTT]_vars

Stored(w) ==
    [bound |-> w.bound, depth |-> w.depth, score |-> w.score, move |-> w.move, ok |-> TRUE]

StoredMove(m) == Move(NoType, m.From, m.To, NoPiece, m.Promotion, NoPiece)

NoSpuriousHit ==
    \A hash \in Hashes :
        LET ptr == tt.t.table[Key(tt.t, hash)]
        IN  (ptr = nil \/ ptr[1].hash # hash) => ~Read(tt.t, hash).ok

(* C6 as stated: after a Write returned true, and with no later write to   *)
(* the same slot, Read of its hash returns ok with exactly the written     *)
(* bound, depth, score and best move; Read of a hash whose slot is empty   *)
(* or holds an entry of another hash returns ok = false.                   *)
C6_ReadReturnsWritten ==
    /\ \A k \in DOMAIN tt.written :
          tt.written[k] # <<>> =>
              Read(tt.t, tt.written[k][1].hash) = Stored(tt.written[k][1])
    /\ NoSpuriousHit

(* C6, amended: Read returns ok with the written bound, depth and score    *)
(* and a move holding the From, To and Promotion of the written move (its  *)
(* Type, Piece and Capture are not stored); an empty slot or an entry of   *)
(* another hash gives ok = false.                                          *)
C6_ReadReturnsStoredFields ==
    /\ \A k \in DOMAIN tt.written :
          tt.written[k] # <<>> =>
              Read(tt.t, tt.written[k][1].hash) =
                  [Stored(tt.written[k][1]) EXCEPT !.move = StoredMove(@)]
    /\ NoSpuriousHit

C6_Witness ==
    /\ tt.last.op = "read" /\ tt.last.result.ok
    /\ tt.last.result.move.Promotion = Queen
    /\ \E hash \in Hashes :
          tt.t.table[Key(tt.t, hash)] # nil /\ tt.t.table[Key(tt.t, hash)][1].hash # hash

(* C7: a Write of F into a slot holding E replaces E and returns true iff  *)
(* ply(F) + 2 * depth(F) >= ply(E) + 2 * depth(E); otherwise it returns     *)
(* false and the slot keeps E; a Write into an empty slot always succeeds.  *)
C7_ReplacementPolicy ==
    tt.last.op = "write" =>
        LET F == tt.last.args
            E == tt.last.before
            now == tt.t.table[Key(tt.t, F.hash)]
        IN  /\ E = nil => tt.last.ok
            /\ E # nil =>
                  (tt.last.ok <=>
                       F.ply + 2 * F.depth >= E[1].md.ply + 2 * E[1].md.depth)
            /\ tt.last.ok => now = <<ttnode(F.hash, F.bound, F.ply, F.depth, F.score, F.move)>>
            /\ ~tt.last.ok => now = E

C7_Witness ==
    /\ tt.last.op = "write" /\ ~tt.last.ok
    /\ tt.last.before # nil /\ tt.last.before[1].hash # tt.last.args.hash
    /\ tt.last.args.ply > tt.last.before[1].md.ply

-----------------------------------------------------------------------------
(* Goroutines sharing one table. A slot holds nil or the address of a node; *)
(* a node is written before its address is published and never after.      *)
(* Addresses are <<goroutine, call>>: no two allocations share one while     *)
(* either is referenced. Each atomic load, each compare-and-swap and each   *)
(* half of the unsynchronised used++ is a step of its own.                  *)

ConcProcs == 2
ConcCalls == 2
MaxConcPly == 1

Procs == 1..ConcProcs

(* A compare-and-swap that does not compare. *)
SwapPointerUncompared(cur, old, new) == [ok |-> TRUE, v |-> new]

CompareAndSwapPointer(cur, old, new) ==
    IF cur = old THEN [ok |-> TRUE, v |-> new] ELSE [ok |-> FALSE, v |-> cur]

(* The node at an address, as the sequential operators take it. *)
Deref(alloc, addr) == IF addr = nil THEN nil ELSE <<alloc[addr].n>>

(* Two hashes of slot 0; the written fields differ with the ply. *)
ConcHashes == {0, NewTranspositionTable(TTSize).mask + 1}

ConcWrites ==
    {[hash |-> h, bound |-> IF ply = 0 THEN ExactBound ELSE LowerBound,
      ply |-> ply, depth |-> 1,
      score |-> HeuristicScore(ply),
      move |-> IF ply = 0 THEN Move(CapturePromotion, G7, H8, Pawn, Queen, Rook)
                          ELSE Move(Normal, G1, F3, Knight, NoPiece, NoPiece)] :
        h \in ConcHashes, ply \in 0..MaxConcPly}

Idle == [pc |-> "idle", calls |-> 0]

OnlyConc == UNCHANGED <<boardVars, zobrist, score, tt, search, iter, ml, engine>>

InitConc ==
    /\ nodes = <<>> /\ boards = <<>> /\ game = <<>> /\ fork = NoFork /\ op = <<>>
    /\ zobrist = <<>> /\ score = <<>> /\ tt = <<>> /\ search = <<>> /\ iter = <<>>
    /\ ml = <<>> /\ engine = <<>>
    /\ conc = [t |-> NewTranspositionTable(TTSize),
               alloc |-> <<>>,
               procs |-> [p \in Procs |-> Idle]]

(* Nodes no slot and no goroutine refers to are garbage. *)
ConcRoots(t, procs) ==
    {t.table[k] : k \in DOMAIN t.table}
        \cup UNION {{procs[p].ptr, procs[p].fresh, procs[p].seen, procs[p].replaced} :
                        p \in {q \in Procs : procs[q].pc # "idle"}}

ConcCollect(alloc, t, procs) ==
    [a \in (DOMAIN alloc) \cap ConcRoots(t, procs) |-> alloc[a]]

ConcSet(t, alloc, procs) ==
    conc' = [t |-> t, alloc |-> ConcCollect(alloc, t, procs), procs |-> procs]

Call(p, name, pc, hash, fresh) ==
    [op |-> name, pc |-> pc, calls |-> conc.procs[p].calls + 1, hash |-> hash, fresh |-> fresh,
     ptr |-> nil, seen |-> nil, replaced |-> nil, retries |-> 0, tmp |-> 0,
     result |-> NoRead, ok |-> FALSE]

(* Read is called: nothing shared is touched yet. *)
ReadCall(p, hash) ==
    /\ conc.procs[p].pc \in {"idle", "done"}
    /\ conc.procs[p].calls < ConcCalls
    /\ ConcSet(conc.t, conc.alloc,
               [conc.procs EXCEPT ![p] = Call(p, "read", "read", hash, nil)])
    /\ OnlyConc

(* ptr := atomic.LoadPointer(addr), and what Read makes of the node. *)
ReadLoad(p) ==
    /\ conc.procs[p].pc = "read"
    /\ ConcSet(conc.t, conc.alloc,
               [conc.procs EXCEPT ![p].pc = "done",
                                  ![p].ptr = conc.t.table[Key(conc.t, conc.procs[p].hash)],
                                  ![p].seen = conc.t.table[Key(conc.t, conc.procs[p].hash)],
                                  ![p].result =
                                      ReadNode(Deref(conc.alloc,
                                                     conc.t.table[Key(conc.t, conc.procs[p].hash)]),
                                               conc.procs[p].hash)])
    /\ OnlyConc

(* Write is called and allocates its node. *)
WriteCall(p, w) ==
    /\ conc.procs[p].pc \in {"idle", "done"}
    /\ conc.procs[p].calls < ConcCalls
    /\ ConcSet(conc.t,
               conc.alloc @@ (<<p, conc.procs[p].calls + 1>> :>
                   [n |-> ttnode(w.hash, w.bound, w.ply, w.depth, w.score, w.move), args |-> w]),
               [conc.procs EXCEPT
                   ![p] = Call(p, "write", "load", w.hash, <<p, conc.procs[p].calls + 1>>)])
    /\ OnlyConc

(* A replacement check that lets every node in. *)
OutvaluedNever(ptr, fresh) == FALSE

(* skip: higher value existing node. *)
Outvalued(ptr, fresh) == val(ptr) > val(fresh)

(* ptr = atomic.LoadPointer(addr), before the loop and after a failed      *)
(* compare-and-swap, and the replacement check on it.                      *)
WriteLoad(p) ==
    /\ conc.procs[p].pc = "load"
    /\ LET ptr == conc.t.table[Key(conc.t, conc.procs[p].hash)]
           skip == Outvalued(Deref(conc.alloc, ptr), Deref(conc.alloc, conc.procs[p].fresh))
       IN  ConcSet(conc.t, conc.alloc,
                   [conc.procs EXCEPT ![p].ptr = ptr,
                                      ![p].pc = IF skip THEN "done" ELSE "cas",
                                      ![p].ok = FALSE])
    /\ OnlyConc

(* atomic.CompareAndSwapPointer(addr, ptr, fresh) *)
WriteCAS(p) ==
    /\ conc.procs[p].pc = "cas"
    /\ LET key == Key(conc.t, conc.procs[p].hash)
           cas == CompareAndSwapPointer(conc.t.table[key], conc.procs[p].ptr, conc.procs[p].fresh)
       IN  ConcSet([conc.t EXCEPT !.table[key] = cas.v], conc.alloc,
                   [conc.procs EXCEPT
                       ![p].pc = IF ~cas.ok THEN "load"
                                 ELSE IF conc.procs[p].ptr = nil THEN "used" ELSE "done",
                       ![p].ok = cas.ok,
                       ![p].retries = IF cas.ok THEN @ ELSE @ + 1,
                       ![p].replaced = IF cas.ok THEN conc.t.table[key] ELSE nil])
    /\ OnlyConc

(* t.used++ is a plain load and a plain store. *)
UsedLoad(p) ==
    /\ conc.procs[p].pc = "used"
    /\ ConcSet(conc.t, conc.alloc,
               [conc.procs EXCEPT ![p].pc = "store", ![p].tmp = conc.t.used])
    /\ OnlyConc

UsedStore(p) ==
    /\ conc.procs[p].pc = "store"
    /\ ConcSet([conc.t EXCEPT !.used = conc.procs[p].tmp + 1], conc.alloc,
               [conc.procs EXCEPT ![p].pc = "done"])
    /\ OnlyConc

NextConc ==
    \/ \E p \in Procs, hash \in ConcHashes : ReadCall(p, hash)
    \/ \E p \in Procs : ReadLoad(p)
    \/ \E p \in Procs, w \in ConcWrites : WriteCall(p, w)
    \/ \E p \in Procs : WriteLoad(p)
    \/ \E p \in Procs : WriteCAS(p)
    \/ \E p \in Procs : UsedLoad(p)
    \/ \E p \in Procs : UsedStore(p)

SpecConc == InitConc /\ [][NextConc]_vars

Returned(p) == conc.procs[p].pc = "done"

Swapped(p) == conc.procs[p].pc \in {"used", "store", "done"} /\ conc.procs[p].op = "write"

(* C8: a Read that returns ok returns what a Read would return right after *)
(* the one Write call whose node the slot held when the Read loaded it,    *)
(* and that call wrote the hash read; a Read that returns not ok found the *)
(* slot empty or holding another hash; a Write that returns true swapped   *)
(* its node for exactly the entry its replacement check was made against,  *)
(* and a Write that returns false was outvalued by the entry it loaded.    *)
C8_LinearizablePerSlot ==
    \A p \in Procs :
        /\ (Returned(p) /\ conc.procs[p].op = "read") =>
              IF conc.procs[p].result.ok
              THEN /\ conc.procs[p].seen # nil
                   /\ conc.alloc[conc.procs[p].seen].args.hash = conc.procs[p].hash
                   /\ conc.procs[p].result =
                          Read(Write(NewTranspositionTable(TTSize),
                                     conc.alloc[conc.procs[p].seen].args.hash,
                                     conc.alloc[conc.procs[p].seen].args.bound,
                                     conc.alloc[conc.procs[p].seen].args.ply,
                                     conc.alloc[conc.procs[p].seen].args.depth,
                                     conc.alloc[conc.procs[p].seen].args.score,
                                     conc.alloc[conc.procs[p].seen].args.move).t,
                               conc.procs[p].hash)
              ELSE \/ conc.procs[p].seen = nil
                   \/ conc.alloc[conc.procs[p].seen].args.hash # conc.procs[p].hash
        /\ (Swapped(p) /\ conc.procs[p].ok) =>
              /\ conc.procs[p].replaced = conc.procs[p].ptr
              /\ val(Deref(conc.alloc, conc.procs[p].ptr))
                     <= val(Deref(conc.alloc, conc.procs[p].fresh))
        /\ (Swapped(p) /\ ~conc.procs[p].ok) =>
              val(Deref(conc.alloc, conc.procs[p].ptr))
                  > val(Deref(conc.alloc, conc.procs[p].fresh))

(* A write that went round its loop and then replaced an entry another     *)
(* goroutine had put there, and a read by that goroutine that hit.         *)
C8_Witness ==
    \E p, q \in Procs :
        /\ p # q
        /\ Returned(p) /\ conc.procs[p].op = "write" /\ conc.procs[p].ok
        /\ conc.procs[p].retries > 0 /\ conc.procs[p].replaced # nil
        /\ Returned(q) /\ conc.procs[q].op = "read" /\ conc.procs[q].result.ok

(* The scheduler lets every goroutine that can take a step take one in the *)
(* end; nothing forces a goroutine to call the table again.                *)
Step(p) == ReadLoad(p) \/ WriteLoad(p) \/ WriteCAS(p) \/ UsedLoad(p) \/ UsedStore(p)

SpecConcFair == SpecConc /\ \A p \in Procs : WF_vars(Step(p))

(* The replacement value of the entry a slot holds. *)
SlotVal(c, k) == val(Deref(c.alloc, c.t.table[k]))

(* The calls the other goroutines have made so far. *)
RECURSIVE SumCalls(_)
SumCalls(ps) ==
    IF ps = {} THEN 0
    ELSE LET q == CHOOSE q \in ps : TRUE IN conc.procs[q].calls + SumCalls(ps \ {q})

InWrite(p) == conc.procs[p].pc \in {"load", "cas"}

(* C29: under every interleaving of Write calls the replacement value of   *)
(* the entry in a slot never decreases and a slot that holds an entry      *)
(* never becomes empty; a Write goes round its loop at most once for each  *)
(* call another goroutine has made, and every Write returns.               *)
C29_SlotsOnlyGainValue ==
    /\ [][\A k \in DOMAIN conc.t.table :
              /\ SlotVal(conc', k) >= SlotVal(conc, k)
              /\ conc.t.table[k] # nil => conc'.t.table[k] # nil]_vars
    /\ [](\A p \in Procs : conc.procs[p].pc # "idle" =>
              conc.procs[p].retries <= SumCalls(Procs \ {p}))
    /\ \A p \in Procs : InWrite(p) ~> Returned(p)

(* A write that went round its loop has replaced an entry of lower value,  *)
(* and another write was turned away by the entry in the slot.             *)
C29_Witness ==
    \E p, q \in Procs :
        /\ p # q
        /\ Returned(p) /\ conc.procs[p].op = "write" /\ conc.procs[p].ok
        /\ conc.procs[p].retries > 0
        /\ conc.procs[p].replaced # nil
        /\ val(Deref(conc.alloc, conc.procs[p].replaced))
               < val(Deref(conc.alloc, conc.procs[p].fresh))
        /\ Returned(q) /\ conc.procs[q].op = "write" /\ ~conc.procs[q].ok

-----------------------------------------------------------------------------
(* Search: the material evaluator, the move list, minimax and alpha-beta.   *)
(* A run of a search is a record r: the board and its heap, the table, the *)
(* node count, the frames of the calls of search in progress, and where    *)
(* the innermost call stands: about to be entered ("call", with its        *)
(* arguments in args), at the head of its loop over the moves ("loop"), or *)
(* back from a call ("return", with the returned values in ret).           *)

NominalValue(p) ==
    IF p = Pawn THEN 1
    ELSE IF p = Bishop \/ p = Knight THEN 3
    ELSE IF p = Rook THEN 5
    ELSE IF p = Queen THEN 9
    ELSE IF p = King THEN 100
    ELSE 0

RECURSIVE materialFrom(_, _, _)
materialFrom(pos, turn, i) ==
    IF i > Len(PieceOrder) THEN 0
    ELSE (PopCount(pos.pieces[turn][PieceOrder[i]])
              - PopCount(pos.pieces[Opponent(turn)][PieceOrder[i]]))
             * NominalValue(PieceOrder[i])
         + materialFrom(pos, turn, i + 1)

Material(pos, turn) == materialFrom(pos, turn, 1)

NominalValueGain(m) ==
    IF m.Type = CapturePromotion
    THEN NominalValue(m.Capture) + NominalValue(m.Promotion) - NominalValue(Pawn)
    ELSE IF m.Type = Promotion THEN NominalValue(m.Promotion) - NominalValue(Pawn)
    ELSE IF m.Type = Capture THEN NominalValue(m.Capture)
    ELSE IF m.Type = EnPassant THEN NominalValue(Pawn)
    ELSE 0

MVVLVA(m) ==
    IF 100 * NominalValueGain(m) > 0
    THEN 100 * NominalValueGain(m) - NominalValue(m.Piece)
    ELSE 0

FirstMVVLVA(f, m) == IF MoveEquals(m, f) THEN 1000 ELSE MVVLVA(m)

(* container/heap over elm{m, val}, with Less(i, j) = h[i].val > h[j].val.  *)
(* Indices are the code's plus one.                                         *)
swap(h, i, j) == [h EXCEPT ![i] = h[j], ![j] = h[i]]

downChild(h, i, n) ==
    IF 2 * i + 1 <= n /\ h[2 * i + 1].val > h[2 * i].val THEN 2 * i + 1 ELSE 2 * i

RECURSIVE down(_, _, _)
down(h, i, n) ==
    IF 2 * i > n THEN h
    ELSE IF ~(h[downChild(h, i, n)].val > h[i].val) THEN h
    ELSE down(swap(h, i, downChild(h, i, n)), downChild(h, i, n), n)

RECURSIVE heapInit(_, _)
heapInit(h, i) == IF i < 1 THEN h ELSE heapInit(down(h, i, Len(h)), i - 1)

NewMoveList(moves, f) ==
    heapInit([i \in 1..Len(moves) |-> [m |-> moves[i], val |-> FirstMVVLVA(f, moves[i])]],
             Len(moves) \div 2)

(* heap.Pop: swap the top with the last, sift down, cut the last off.       *)
heapPop(h) == down(swap(h, 1, Len(h)), 1, Len(h) - 1)

MoveListNext(h) == [m |-> heapPop(h)[Len(h)].m, rest |-> SubSeq(heapPop(h), 1, Len(h) - 1)]


BoardHash(r) == r.heap[r.b.current].hash

(* The number of half-moves played in the game. *)
BoardPly(r) == 2 * (r.b.fullmoves - 1) + (IF r.b.turn = Black THEN 1 ELSE 0)

(* b.PushMove(move) and b.PopMove() on the search's board; the popped node  *)
(* is garbage at once.                                                      *)
searchPushed(r, p) == [ok |-> p.ok, r |-> [r EXCEPT !.heap = p.heap, !.b = p.board]]

searchPush(r, m) == searchPushed(r, PushMove(r.heap, r.b, m))

searchPopped(r, p) == [r EXCEPT !.heap = Collect(p.heap, <<p.board>>), !.b = p.board]

(* A search that leaves its move on the board. *)
searchKeep(r) == r

searchPop(r) == searchPopped(r, PopMove(r.heap, r.b))

(* Calling search, and returning from it. *)
call(r, args) == [r EXCEPT !.pc = "call", !.args = args]

return(r, sc, pv) == [r EXCEPT !.pc = "return", !.ret = [score |-> sc, pv |-> pv]]

top(r) == r.stack[Len(r.stack)]

setTop(r, f) == [r EXCEPT !.stack[Len(r.stack)] = f, !.pc = "loop"]

popFrame(r) == [r EXCEPT !.stack = SubSeq(@, 1, Len(@) - 1)]

(* No legal move: checkmate or stalemate, adjudicated on the board. *)
noLegalMove(r, result) ==
    return(popFrame([r EXCEPT !.b = Adjudicate(r.b, result)]),
           IF result.Reason = Checkmate THEN NegInfScore ELSE ZeroScore,
           <<>>)

(* Minimax.Eval is Material. *)
Evaluate(r) == HeuristicScore(Material(r.heap[r.b.current].pos, r.b.turn))

(* runMinimax.search: its local variables. *)
mmArgs(depth) == [depth |-> depth]

mmFrame(depth, moves) ==
    [depth |-> depth, moves |-> moves, i |-> 1, has |-> FALSE,
     score |-> NegInfScore, pv |-> <<>>]

(* From the entry of search to the head of its loop. *)
mmCounted(r, depth) ==
    IF r.quit THEN return([r EXCEPT !.observed = TRUE], ZeroScore, <<>>)
    ELSE IF r.b.result.Outcome = Draw THEN return(r, ZeroScore, <<>>)
    ELSE IF depth = 0 THEN return(r, Evaluate(r), <<>>)
    ELSE [r EXCEPT !.pc = "loop",
                   !.stack = Append(@, mmFrame(depth,
                                PseudoLegalMoves(r.heap[r.b.current].pos, r.b.turn)))]

mmEntered(r) == mmCounted([r EXCEPT !.nodes = @ + 1], r.args.depth)

(* After the loop. *)
mmLoop(r, f) ==
    IF ~f.has THEN noLegalMove(r, AdjudicateNoLegalMoves(r.heap, r.b))
    ELSE return(popFrame(r), f.score, f.pv)

(* One turn of the loop up to the call of search for the move. *)
mmPushed(r, f, p) ==
    IF p.ok THEN call(setTop(p.r, [f EXCEPT !.i = @ + 1]), mmArgs(f.depth - 1))
    ELSE setTop(r, [f EXCEPT !.i = @ + 1])

mmTurn(r, f) ==
    IF f.i > Len(f.moves) THEN mmLoop(r, f)
    ELSE mmPushed(r, f, searchPush(r, f.moves[f.i]))

(* The rest of the turn, from the return of search. *)
mmTaken(r, f, v, rem) ==
    IF Less(f.score, v)
    THEN setTop(r, [f EXCEPT !.has = TRUE, !.score = v, !.pv = <<f.moves[f.i - 1]>> \o rem])
    ELSE setTop(r, [f EXCEPT !.has = TRUE])

mmReturned(r) ==
    mmTaken(searchPop(r), top(r), Negate(IncrementMateDistance(r.ret.score)), r.ret.pv)

(* The table a search is given: NoTranspositionTable, or a table of        *)
(* NewTranspositionTable(64<<20), in which no two positions of one search   *)
(* share a slot: the slot of a hash is written as the hash itself.          *)
NoTranspositionTable == [on |-> FALSE, table |-> <<>>]

EmptyTranspositionTable == [on |-> TRUE, table |-> <<>>]

ttSlot(t, hash) == IF hash \in DOMAIN t.table THEN t.table[hash] ELSE nil

ttRead(t, hash) == IF t.on THEN ReadNode(ttSlot(t, hash), hash) ELSE NoRead

ttStore(t, hash, fresh) ==
    IF val(ttSlot(t, hash)) > val(fresh)
    THEN t
    ELSE [t EXCEPT !.table = [k \in DOMAIN t.table \cup {hash} |->
                                 IF k = hash THEN fresh ELSE t.table[k]]]

ttWrite(t, hash, bound, ply, depth, sc, move) ==
    IF t.on THEN ttStore(t, hash, <<ttnode(hash, bound, ply, depth, sc, move)>>) ELSE t

first(pv) == IF Len(pv) = 0 THEN NoMove ELSE pv[1]

(* s.Less(o) was called: the call is recorded when an operand is Invalid. *)
compared(r, s, o) == [r EXCEPT !.invalid = @ \/ s.Type = Invalid \/ o.Type = Invalid]

(* The table of the run becomes t: a change after quit was observed is     *)
(* recorded.                                                               *)
wrote(r, t) == [r EXCEPT !.tt = t, !.late = @ \/ (r.observed /\ t # r.tt)]

(* A cutoff after every move. *)
CutoffAtOnce(alpha, beta) == TRUE

Cutoff(alpha, beta) == alpha = beta \/ Less(beta, alpha)

(* The score of a table entry as the probe takes it, and whether the probe  *)
(* ends the search of the node.                                             *)
isOpp(e, depth) == (e.depth - depth) % 2 # 0

ttScore(e, depth) == IF isOpp(e, depth) THEN Negate(e.score) ELSE e.score

ttCutoff(e, depth, beta) ==
    /\ e.ok
    /\ depth <= e.depth
    /\ e.bound = ExactBound \/ ~isOpp(e, depth)
    /\ beta = ttScore(e, depth) \/ Less(beta, ttScore(e, depth))

(* runAlphaBeta.search: its arguments and local variables. No ponder line  *)
(* is given, and every move is picked.                                     *)
abArgs(depth, alpha, beta) == [depth |-> depth, alpha |-> alpha, beta |-> beta]

abFrame(depth, alpha, beta, list) ==
    [depth |-> depth, alpha |-> alpha, beta |-> beta, list |-> list, move |-> NoMove,
     has |-> FALSE, pv |-> <<>>]

(* AlphaBeta.Eval is ZeroPly{Material}: one node, the material score. *)
abLeaf(r, sc) ==
    return(wrote([r EXCEPT !.nodes = @ + 1],
                 ttWrite(r.tt, BoardHash(r), ExactBound, BoardPly(r), 0, sc, NoMove)),
           sc, <<>>)

(* From the entry of search to the head of its loop. *)
abProbe(r, depth, beta, e) ==
    IF e.ok /\ depth <= e.depth /\ (e.bound = ExactBound \/ ~isOpp(e, depth))
          /\ beta # ttScore(e, depth)
    THEN compared(r, beta, ttScore(e, depth))
    ELSE r

abProbed(r, depth, alpha, beta, e) ==
    IF ttCutoff(e, depth, beta) THEN return(abProbe(r, depth, beta, e), ttScore(e, depth), <<>>)
    ELSE IF depth = 0 THEN abLeaf(abProbe(r, depth, beta, e), Evaluate(r))
    ELSE [abProbe(r, depth, beta, e) EXCEPT
                   !.nodes = @ + 1,
                   !.pc = "loop",
                   !.stack = Append(@, abFrame(depth, alpha, beta,
                                NewMoveList(PseudoLegalMoves(r.heap[r.b.current].pos, r.b.turn),
                                            e.move)))]

abEntered(r) ==
    IF r.quit THEN return([r EXCEPT !.observed = TRUE], InvalidScore, <<>>)
    ELSE IF r.b.result.Outcome = Draw THEN return(r, ZeroScore, <<>>)
    ELSE abProbed(r, r.args.depth, r.args.alpha, r.args.beta, ttRead(r.tt, BoardHash(r)))

(* The end of search: the entry written to the table, alpha returned. *)
abDone(r, f, alpha, bound, pv) ==
    return(popFrame(wrote(r, ttWrite(r.tt, BoardHash(r), bound, BoardPly(r), f.depth,
                                     alpha, first(pv)))),
           alpha, pv)

(* After the loop was left with no move in the list. *)
abLoop(r, f) ==
    IF ~f.has THEN noLegalMove(r, AdjudicateNoLegalMoves(r.heap, r.b))
    ELSE abDone(r, f, f.alpha, ExactBound, f.pv)

(* One turn of the loop up to the call of search for the move. *)
abPushed(r, f, nx, p) ==
    IF p.ok
    THEN call(setTop(p.r, [f EXCEPT !.list = nx.rest, !.move = nx.m]),
              abArgs(f.depth - 1, Negate(f.beta), Negate(f.alpha)))
    ELSE setTop(r, [f EXCEPT !.list = nx.rest])

abMove(r, f, nx) == abPushed(r, f, nx, searchPush(r, nx.m))

abTurn(r, f) == IF f.list = <<>> THEN abLoop(r, f) ELSE abMove(r, f, MoveListNext(f.list))

(* The rest of the turn, from the return of search. *)
abCompared(r, alpha, beta) == IF alpha = beta THEN r ELSE compared(r, beta, alpha)

abCut(r, f, alpha, pv) ==
    IF Cutoff(alpha, f.beta) THEN abDone(abCompared(r, alpha, f.beta), f, alpha, LowerBound, pv)
    ELSE setTop(abCompared(r, alpha, f.beta), [f EXCEPT !.alpha = alpha, !.pv = pv, !.has = TRUE])

abTaken(r, f, v, rem) ==
    IF Less(f.alpha, v) THEN abCut(compared(r, f.alpha, v), f, v, <<f.move>> \o rem)
    ELSE abCut(compared(r, f.alpha, v), f, f.alpha, f.pv)

abReturned(r) ==
    abTaken(searchPop(r), top(r), Negate(IncrementMateDistance(r.ret.score)), r.ret.pv)

(* IsQuickGain on the board after the move: a promotion, or a capture of a *)
(* dearer piece or on a square the opponent does not attack.               *)
IsQuickGain(m, r) ==
    \/ IsPromotion(m)
    \/ /\ IsCapture(m)
       /\ \/ NominalValue(m.Piece) < NominalValue(m.Capture)
          \/ ~IsAttacked(r.heap[r.b.current].pos, Opponent(r.b.turn), m.To)

(* runQuiescence.search: the exploration is MVVLVA over the quick gains,   *)
(* the evaluator is Material. Its locals are alpha, beta, the move list    *)
(* and hasLegalMoves.                                                      *)
qsArgs(alpha, beta) == abArgs(0, alpha, beta)

qsFrame(alpha, beta, list) == abFrame(0, alpha, beta, list)

(* From the entry of search to the head of its loop. *)
qsEntered(r) ==
    IF r.quit THEN return([r EXCEPT !.observed = TRUE], ZeroScore, <<>>)
    ELSE IF r.b.result.Outcome = Draw THEN return(r, ZeroScore, <<>>)
    ELSE [r EXCEPT !.nodes = @ + 1,
                   !.pc = "loop",
                   !.stack = Append(@, qsFrame(Max(r.args.alpha, Evaluate(r)), r.args.beta,
                                NewMoveList(PseudoLegalMoves(r.heap[r.b.current].pos, r.b.turn),
                                            NoMove)))]

(* After the loop was left with no move in the list. *)
qsLoop(r, f) ==
    IF ~f.has THEN noLegalMove(r, AdjudicateNoLegalMoves(r.heap, r.b))
    ELSE return(popFrame(r), f.alpha, <<>>)

(* The end of a turn, after PopMove: the cutoff leaves the loop. *)
qsPopped(r, f, alpha) ==
    IF Cutoff(alpha, f.beta) THEN return(popFrame(r), alpha, <<>>)
    ELSE setTop(r, [f EXCEPT !.alpha = alpha, !.has = TRUE])

(* One turn of the loop: up to the call of search for an explored move, or *)
(* the whole turn for a move that is not explored.                         *)
qsPushed(r, f, nx, p) ==
    IF ~p.ok THEN setTop(r, [f EXCEPT !.list = nx.rest])
    ELSE IF IsQuickGain(nx.m, p.r)
    THEN call(setTop(p.r, [f EXCEPT !.list = nx.rest, !.move = nx.m]),
              qsArgs(Negate(f.beta), Negate(f.alpha)))
    ELSE qsPopped(searchPop(p.r), [f EXCEPT !.list = nx.rest], f.alpha)

qsMove(r, f, nx) == qsPushed(r, f, nx, searchPush(r, nx.m))

qsTurn(r, f) == IF f.list = <<>> THEN qsLoop(r, f) ELSE qsMove(r, f, MoveListNext(f.list))

(* The rest of the turn, from the return of search. *)
qsReturned(r) ==
    qsPopped(searchPop(r), top(r),
             Max(top(r).alpha, Negate(IncrementMateDistance(r.ret.score))))

(***************************************************************************)
(* The searches of TestAlphaBeta run one after the other on one board:     *)
(* AlphaBeta without a table, AlphaBeta with a new table, then Minimax.    *)
(***************************************************************************)

TestDepth == 4

(* "k7/7R/6R1/8/8/8/8/7K w - - 0 1" *)
RookLadder ==
    NewPosition(<<<<A8, Black, King>>, <<H7, White, Rook>>, <<G6, White, Rook>>,
                  <<H1, White, King>>>>, NoCastlingRights, ZeroSquare)

(* "k7/7R/7R/8/8/8/8/7K w - - 0 1" *)
RookFile ==
    NewPosition(<<<<A8, Black, King>>, <<H7, White, Rook>>, <<H6, White, Rook>>,
                  <<H1, White, King>>>>, NoCastlingRights, ZeroSquare)

(* "8/8/8/6kp/8/7K/8/7n w - - 0 1" *)
KnightEnding ==
    NewPosition(<<<<G5, Black, King>>, <<H5, Black, Pawn>>, <<H3, White, King>>,
                  <<H1, Black, Knight>>>>, NoCastlingRights, ZeroSquare)

(* "3Kn3/1P6/8/8/8/8/8/k7 w - - 0 1" *)
PromotionEnding ==
    NewPosition(<<<<D8, White, King>>, <<E8, Black, Knight>>, <<B7, White, Pawn>>,
                  <<A1, Black, King>>>>, NoCastlingRights, ZeroSquare)

(* "8/8/8/8/1p6/8/P7/K6k w - - 0 1" *)
JumpEnding ==
    NewPosition(<<<<B4, Black, Pawn>>, <<A2, White, Pawn>>, <<A1, White, King>>,
                  <<H1, Black, King>>>>, NoCastlingRights, ZeroSquare)

(* "k7/8/1Q6/8/8/8/8/7K b - - 0 1" *)
StalematePosition ==
    NewPosition(<<<<A8, Black, King>>, <<B6, White, Queen>>, <<H1, White, King>>>>,
                NoCastlingRights, ZeroSquare)

(* "k7/1Q6/1K6/8/8/8/8/8 b - - 0 1" *)
CheckmatePosition ==
    NewPosition(<<<<A8, Black, King>>, <<B7, White, Queen>>, <<B6, White, King>>>>,
                NoCastlingRights, ZeroSquare)

(* "4k3/8/8/8/8/8/7P/4K2R w K - 0 1" *)
CastlingEnding ==
    NewPosition(<<<<E8, Black, King>>, <<H2, White, Pawn>>, <<E1, White, King>>,
                  <<H1, White, Rook>>>>, {WhiteKingSideCastle}, ZeroSquare)

(* "7k/8/8/8/8/7p/8/K7 b - - 0 1" *)
PawnEnding ==
    NewPosition(<<<<H8, Black, King>>, <<H3, Black, Pawn>>, <<A1, White, King>>>>,
                NoCastlingRights, ZeroSquare)

SearchPositions ==
    <<[pos |-> RookLadder, turn |-> White], [pos |-> RookFile, turn |-> White],
      [pos |-> KnightEnding, turn |-> White], [pos |-> PromotionEnding, turn |-> White],
      [pos |-> JumpEnding, turn |-> White], [pos |-> StalematePosition, turn |-> Black],
      [pos |-> CheckmatePosition, turn |-> Black], [pos |-> CastlingEnding, turn |-> White],
      [pos |-> PawnEnding, turn |-> Black]>>

OnlySearch == UNCHANGED <<boardVars, zobrist, score, tt, conc, iter, ml, engine>>

NotRun == <<>>

(* fen.NewBoard(zt, fen) for a position at its first move; no search runs. *)
(* quit tells whether the quit channel is closed; observed, whether a call *)
(* of search has found it closed; invalid, whether Less was called with an *)
(* Invalid score; late, whether the table was written after observed.      *)
searchBoard(nb, depth, pos) ==
    [pos |-> pos, depth |-> depth, phase |-> 0, heap |-> nb.heap, b |-> nb.board,
     tt |-> NoTranspositionTable, nodes |-> 0, stack |-> <<>>, pc |-> "idle",
     args |-> <<>>, ret |-> <<>>, ab |-> NotRun, abtt |-> NotRun, mm |-> NotRun,
     quit |-> FALSE, observed |-> FALSE, invalid |-> FALSE, late |-> FALSE]

InitSearch ==
    /\ nodes = <<>> /\ boards = <<>> /\ game = <<>> /\ fork = NoFork /\ op = <<>>
    /\ zobrist = <<>> /\ score = <<>> /\ tt = <<>> /\ conc = <<>> /\ iter = <<>>
    /\ ml = <<>> /\ engine = <<>>
    /\ \E i \in DOMAIN SearchPositions, depth \in 1..TestDepth :
           search = searchBoard(NewBoard(<<>>, SearchPositions[i].pos,
                                         SearchPositions[i].turn, 0, 1), depth, i)

(* Search with sctx.Alpha and sctx.Beta invalid: the full window. *)
AlphaBetaSearch(r, table) ==
    call([r EXCEPT !.tt = table, !.nodes = 0], abArgs(r.depth, NegInfScore, InfScore))

MinimaxSearch(r) == call([r EXCEPT !.tt = NoTranspositionTable, !.nodes = 0], mmArgs(r.depth))

(* nodes, actual, _, _ := pvs.Search(ctx, search.EmptyContext, b, depth, quit) *)
RunAlphaBeta ==
    /\ search.phase = 0 /\ search.pc = "idle"
    /\ search' = AlphaBetaSearch(search, NoTranspositionTable)
    /\ OnlySearch

(* pvs.Search(ctx, &search.Context{TT: NewTranspositionTable(ctx, 64<<20)}, b, ...) *)
RunAlphaBetaTT ==
    /\ search.phase = 1 /\ search.pc = "idle"
    /\ search' = AlphaBetaSearch(search, EmptyTranspositionTable)
    /\ OnlySearch

(* m, expected, _, _ := minimax.Search(ctx, search.EmptyContext, b, depth, quit) *)
RunMinimax ==
    /\ search.phase = 2 /\ search.pc = "idle"
    /\ search' = MinimaxSearch(search)
    /\ OnlySearch

InAlphaBeta == search.phase \in {0, 1}
InMinimax == search.phase = 2

abSearch ==
    /\ InAlphaBeta /\ search.pc = "call"
    /\ search' = abEntered(search)
    /\ OnlySearch

abNext ==
    /\ InAlphaBeta /\ search.pc = "loop"
    /\ search' = abTurn(search, top(search))
    /\ OnlySearch

abReturn ==
    /\ InAlphaBeta /\ search.pc = "return" /\ search.stack # <<>>
    /\ search' = abReturned(search)
    /\ OnlySearch

mmSearch ==
    /\ InMinimax /\ search.pc = "call"
    /\ search' = mmEntered(search)
    /\ OnlySearch

mmNext ==
    /\ InMinimax /\ search.pc = "loop"
    /\ search' = mmTurn(search, top(search))
    /\ OnlySearch

mmReturn ==
    /\ InMinimax /\ search.pc = "return" /\ search.stack # <<>>
    /\ search' = mmReturned(search)
    /\ OnlySearch

(* The outermost search returns: Search hands back the nodes and the score. *)
ErrHalted == "search halted"

searched(r) ==
    IF r.quit THEN [score |-> InvalidScore, nodes |-> 0, err |-> ErrHalted]
    ELSE [score |-> r.ret.score, nodes |-> r.nodes, err |-> ""]

SearchReturn ==
    /\ search.pc = "return" /\ search.stack = <<>>
    /\ search' = [search EXCEPT !.pc = "idle",
                                !.phase = @ + 1,
                                !.ab = IF search.phase = 0 THEN searched(search) ELSE @,
                                !.abtt = IF search.phase = 1 THEN searched(search) ELSE @,
                                !.mm = IF search.phase = 2 THEN searched(search) ELSE @]
    /\ OnlySearch

NextSearch ==
    \/ RunAlphaBeta \/ RunAlphaBetaTT \/ RunMinimax
    \/ abSearch \/ abNext \/ abReturn
    \/ mmSearch \/ mmNext \/ mmReturn
    \/ SearchReturn

SpecSearch == InitSearch /\ [][NextSearch]_vars

(***************************************************************************)
(* The same searches with a quit channel that is closed while a search     *)
(* runs: search polls it at its entry, Search once more at its end.        *)
(***************************************************************************)

CancelDepth == 2

CancelPositions == {3, 4, 7}

InitCancel ==
    /\ nodes = <<>> /\ boards = <<>> /\ game = <<>> /\ fork = NoFork /\ op = <<>>
    /\ zobrist = <<>> /\ score = <<>> /\ tt = <<>> /\ conc = <<>> /\ iter = <<>>
    /\ ml = <<>> /\ engine = <<>>
    /\ \E i \in CancelPositions, depth \in 1..CancelDepth :
           search = searchBoard(NewBoard(<<>>, SearchPositions[i].pos,
                                         SearchPositions[i].turn, 0, 1), depth, i)

(* close(quit), by whoever halts the search. *)
SearchHalt ==
    /\ search.pc # "idle" /\ ~search.quit
    /\ search' = [search EXCEPT !.quit = TRUE]
    /\ OnlySearch

(* nodes, score := qs.QuietSearch(ctx, search.EmptyContext, b): the full  *)
(* window.                                                                 *)
QuietSearch(r) ==
    call([r EXCEPT !.tt = NoTranspositionTable, !.nodes = 0], qsArgs(NegInfScore, InfScore))

RunQuiescence ==
    /\ search.phase = 3 /\ search.pc = "idle"
    /\ search' = QuietSearch(search)
    /\ OnlySearch

InQuiescence == search.phase = 3

qsSearch ==
    /\ InQuiescence /\ search.pc = "call"
    /\ search' = qsEntered(search)
    /\ OnlySearch

qsNext ==
    /\ InQuiescence /\ search.pc = "loop"
    /\ search' = qsTurn(search, top(search))
    /\ OnlySearch

qsReturn ==
    /\ InQuiescence /\ search.pc = "return" /\ search.stack # <<>>
    /\ search' = qsReturned(search)
    /\ OnlySearch

NextCancel ==
    \/ RunAlphaBeta \/ RunAlphaBetaTT \/ RunMinimax \/ RunQuiescence
    \/ abSearch \/ abNext \/ abReturn
    \/ mmSearch \/ mmNext \/ mmReturn
    \/ qsSearch \/ qsNext \/ qsReturn
    \/ SearchReturn
    \/ SearchHalt

SpecCancel == InitCancel /\ [][NextCancel]_vars

(* C4: at every depth from 1 to 4, from the full window and without a      *)
(* table, AlphaBeta.Search over ZeroPly{Material} returns the score that   *)
(* Minimax.Search returns for the same position and depth.                 *)
C4_AlphaBetaIsMinimax ==
    search.phase = 3 => search.ab.score = search.mm.score

(* A search of more than one ply that found a forced mate and where the    *)
(* cutoffs saved alpha-beta part of the nodes minimax visited.             *)
C4_Witness ==
    /\ search.phase = 3
    /\ search.depth > 1
    /\ search.ab.score = search.mm.score
    /\ search.ab.score.Type = MateInX
    /\ search.ab.nodes < search.mm.nodes

(* C5: AlphaBeta.Search with a new, empty transposition table returns the  *)
(* score it returns without a table, for the same position and depth.      *)
C5_TableKeepsScore ==
    search.phase >= 2 => search.abtt.score = search.ab.score

(* C24: the Invalid score comes from a cancelled search only and is never  *)
(* an operand of Less: the callers of a search that returned Invalid       *)
(* unwind without comparing it with alpha or beta.                         *)
C24_InvalidIsNeverCompared ==
    /\ ~search.invalid
    /\ (search.pc = "return" /\ search.ret.score.Type = Invalid) => search.observed

(* C26: a search that has observed the cancellation writes nothing more to *)
(* the table, and the table never holds an entry with an Invalid score.    *)
C26_NoWriteAfterCancel ==
    /\ ~search.late
    /\ \A h \in DOMAIN search.tt.table : search.tt.table[h][1].score.Type # Invalid

(* The board the searches were given. *)
GivenBoard(r) ==
    NewBoard(<<>>, SearchPositions[r.pos].pos, SearchPositions[r.pos].turn, 0, 1)

(* The board of the run is at the node of nb with its position, hash, side *)
(* to move, full-move count and repetition counts.                         *)
SameBoard(r, nb) ==
    /\ r.b.current = nb.board.current
    /\ r.heap[r.b.current].pos = nb.heap[nb.board.current].pos
    /\ r.heap[r.b.current].hash = nb.heap[nb.board.current].hash
    /\ r.heap[r.b.current].prev = nb.heap[nb.board.current].prev
    /\ r.b.turn = nb.board.turn
    /\ r.b.fullmoves = nb.board.fullmoves
    /\ \A h \in DOMAIN r.b.repetitions \cup DOMAIN nb.board.repetitions :
           Count(r.b.repetitions, h) = Count(nb.board.repetitions, h)

(* C30: when Minimax, AlphaBeta or Quiescence returns, by itself or after  *)
(* the cancellation, the board is at the node it was given at, with the    *)
(* same position, hash, side to move, full-move count and repetition       *)
(* counts; while a search runs, the board is as many plies below that node *)
(* as there are calls of search that have pushed a move and not popped it. *)
C30_BoardRestored ==
    /\ (search.pc = "idle" \/ (search.pc = "return" /\ search.stack = <<>>))
          => SameBoard(search, GivenBoard(search))
    /\ search.pc \in {"call", "return"} => Plies(search.heap, search.b) = Len(search.stack)
    /\ search.pc = "loop" => Plies(search.heap, search.b) = Len(search.stack) - 1

(* A cancelled quiescence search that had pushed a move has returned. *)
C30_Witness ==
    /\ search.phase = 3 /\ search.pc = "return" /\ search.stack = <<>>
    /\ search.observed /\ search.nodes > 1

(* A cancelled alpha-beta search and a minimax search that ran to its end. *)
C30_WitnessAlphaBeta ==
    /\ search.phase = 0 /\ search.pc = "return" /\ search.stack = <<>>
    /\ search.observed /\ search.nodes > 1

C30_WitnessMinimax ==
    /\ search.phase = 2 /\ search.pc = "return" /\ search.stack = <<>>
    /\ ~search.quit /\ search.nodes > 1

-----------------------------------------------------------------------------
(***************************************************************************)
(* The iterative search harness: Launch starts a worker (handle.process)   *)
(* that searches depth 1, 2, .. and sends a PV per depth on a channel of   *)
(* capacity one; clients and the hard-limit timer call Halt. The search of *)
(* one depth is taken as what the harness sees of it: it polls the         *)
(* cancellation signal at its nodes, checks it once more at the end, and   *)
(* returns some score. Time is a clock of whole units that advances while  *)
(* a search runs and after the worker has ended; the sections under h.mu  *)
(* are single steps.                                                      *)
(***************************************************************************)

MaxTime == 3
MaxIterDepth == 3
MaxPolls == 1
HaltCalls == 2

(* Who calls Halt: a client, up to HaltCalls times, and the timer. *)
Users == {"u1"}
Callers == Users \cup {"timer"}

(* TimeControl.Limits: the soft and the hard limit for the side to move. *)
TimeControl(white, black, moves) == [White |-> white, Black |-> black, Moves |-> moves]

Remainder(t, c) == IF c = Black THEN t.Black ELSE t.White

Limits(t, c) ==
    LET moves == IF t.Moves > 0 THEN t.Moves + 1 ELSE 40
        soft == Remainder(t, c) \div (2 * moves)
    IN  [soft |-> soft, hard |-> 3 * soft]

(* lang.Optional: a value or none. *)
None == [ok |-> FALSE, v |-> 0]
Some(v) == [ok |-> TRUE, v |-> v]

(* EnforceTimeControl: the soft limit, whether there is one, and the       *)
(* timer time.AfterFunc(hard, h.Halt) started at the time now.             *)
NoTimer == [armed |-> FALSE, at |-> 0, fired |-> FALSE, late |-> FALSE]

EnforceTimeControl(tc, turn, now) ==
    IF ~tc.ok THEN [soft |-> 0, useSoft |-> FALSE, timer |-> NoTimer]
    ELSE [soft |-> Limits(tc.v, turn).soft, useSoft |-> TRUE,
          timer |-> [NoTimer EXCEPT !.armed = TRUE, !.at = now + Limits(tc.v, turn).hard]]

(* A mate distance that keeps the sign of the score. *)
MateDistanceSigned(s) ==
    CASE s.Type = MateInX -> [md |-> s.Mate, ok |-> TRUE]
      [] s.Type \in {Inf, NegInf} -> [md |-> 0, ok |-> TRUE]
      [] OTHER -> [md |-> 0, ok |-> FALSE]

(* Score.MateDistance *)
MateDistance(s) ==
    CASE s.Type = MateInX -> [md |-> IF s.Mate < 0 THEN Int8(-s.Mate) ELSE s.Mate, ok |-> TRUE]
      [] s.Type \in {Inf, NegInf} -> [md |-> 0, ok |-> TRUE]
      [] OTHER -> [md |-> 0, ok |-> FALSE]

(* search.PV, with whether the iteration it comes from saw the             *)
(* cancellation at one of its nodes.                                       *)
PV(depth, sc, partial) == [depth |-> depth, score |-> sc, partial |-> partial]
NoPV == PV(0, InvalidScore, FALSE)

(* The options a search is launched with and what its searches return. *)
DepthLimits == {None, Some(0), Some(2)}
TimeControls == {None, Some(TimeControl(80, 160, 0)), Some(TimeControl(4, 8, 1))}
IterScores == {ZeroScore, MateInXScore(2), MateInXScore(-3), NegInfScore}

OnlyIter == UNCHANGED <<boardVars, zobrist, score, tt, conc, search, ml, engine>>

(* Launch: the handle, the channel and the worker about to run. *)
Launch(limit, tc, turn) ==
    [limit |-> limit, tc |-> tc, turn |-> turn, now |-> 0,
     pc |-> "start", depth |-> 0, start |-> 0, soft |-> 0, useSoft |-> FALSE,
     polls |-> 0, observed |-> FALSE, next |-> NoPV, end |-> "", endAt |-> 0,
     init |-> FALSE, done |-> FALSE, quit |-> FALSE, closes |-> 0, panic |-> FALSE,
     cancelled |-> FALSE, pv |-> NoPV,
     out |-> <<>>, closed |-> FALSE, sent |-> <<>>, dropped |-> FALSE,
     timer |-> NoTimer,
     halt |-> [c \in Callers |-> [pc |-> "idle", calls |-> 0]], returned |-> NoPV]

InitIter ==
    /\ nodes = <<>> /\ boards = <<>> /\ game = <<>> /\ fork = NoFork /\ op = <<>>
    /\ zobrist = <<>> /\ score = <<>> /\ tt = <<>> /\ conc = <<>> /\ search = <<>>
    /\ ml = <<>> /\ engine = <<>>
    /\ \E limit \in DepthLimits, tc \in TimeControls, turn \in Colors :
           iter = Launch(limit, tc, turn)

(* The worker ends: the deferred cancel(), close(out) and h.init.Close(). *)
ended(i, why) == [i EXCEPT !.pc = "return", !.end = why, !.endAt = i.now]

(* process up to the loop. *)
entered(i, e) ==
    [i EXCEPT !.pc = "loop", !.depth = 1, !.soft = e.soft, !.useSoft = e.useSoft,
              !.timer = e.timer]

Enter ==
    /\ iter.pc = "start"
    /\ iter' = entered(iter, EnforceTimeControl(iter.tc, iter.turn, iter.now))
    /\ OnlyIter

(* for !h.quit.IsClosed() { start := time.Now() .. *)
Loop ==
    /\ iter.pc = "loop"
    /\ iter.quit \/ iter.depth <= MaxIterDepth
    /\ iter' = IF iter.quit THEN ended(iter, "halt")
               ELSE [iter EXCEPT !.pc = "search", !.start = iter.now, !.polls = 0,
                                 !.observed = FALSE]
    /\ OnlyIter

(* A node of the search polls the signal; once a node has seen it the      *)
(* search unwinds.                                                          *)
SearchNode ==
    /\ iter.pc = "search" /\ ~iter.observed /\ iter.polls < MaxPolls
    /\ iter' = IF iter.cancelled THEN [iter EXCEPT !.observed = TRUE]
               ELSE [iter EXCEPT !.polls = @ + 1]
    /\ OnlyIter

(* A search that returns a result whatever the signal. *)
HaltedNever(cancelled) == FALSE

(* The check of the signal after the search: ErrHalted. *)
Halted(cancelled) == cancelled

(* root.Search returns; with no error the PV is built. *)
iterated(i, sc) ==
    IF Halted(i.cancelled) THEN ended(i, "errhalted")
    ELSE [i EXCEPT !.pc = "store",
                   !.next = PV(i.depth, IF i.observed THEN InvalidScore ELSE sc, i.observed)]

SearchDone ==
    /\ iter.pc = "search" /\ (iter.observed \/ iter.polls > 0)
    /\ \E sc \in IterScores : iter' = iterated(iter, sc)
    /\ OnlyIter

(* h.mu.Lock(); h.pv = pv; h.mu.Unlock() *)
Store ==
    /\ iter.pc = "store"
    /\ iter' = [iter EXCEPT !.pc = "drain", !.pv = iter.next]
    /\ OnlyIter

(* A worker that sends without making room. *)
DrainNothing ==
    /\ iter.pc = "drain"
    /\ iter' = [iter EXCEPT !.pc = "send"]
    /\ OnlyIter

(* select { case <-out: default: }; dropped tells whether a PV the client  *)
(* had not read was ever taken out this way.                               *)
Drain ==
    /\ iter.pc = "drain"
    /\ iter' = [iter EXCEPT !.pc = "send", !.out = <<>>, !.dropped = @ \/ iter.out # <<>>]
    /\ OnlyIter

(* out <- pv *)
Send ==
    /\ iter.pc = "send" /\ Len(iter.out) < 1
    /\ iter' = [iter EXCEPT !.pc = "init", !.out = Append(@, iter.next),
                            !.sent = Append(@, [depth |-> iter.next.depth,
                                                partial |-> iter.next.partial])]
    /\ OnlyIter

(* h.init.Close() *)
MarkInitialized ==
    /\ iter.pc = "init"
    /\ iter' = [iter EXCEPT !.pc = "limits", !.init = TRUE]
    /\ OnlyIter

(* The three tests after a PV is out, and depth++. *)
Reached(limit, depth) == limit.ok /\ depth = limit.v
Mated(sc, depth) == MateDistance(sc).ok /\ MateDistance(sc).md <= depth
Expired(useSoft, soft, since) == useSoft /\ soft < since

(* The depth once more. *)
SameDepth(depth) == depth

NextDepth(depth) == depth + 1

limited(i) ==
    IF Reached(i.limit, i.depth) THEN ended(i, "depth")
    ELSE IF Mated(i.next.score, i.depth) THEN ended(i, "mate")
    ELSE IF Expired(i.useSoft, i.soft, i.now - i.start) THEN ended(i, "soft")
    ELSE [i EXCEPT !.pc = "loop", !.depth = NextDepth(@)]

Limit ==
    /\ iter.pc = "limits"
    /\ iter' = limited(iter)
    /\ OnlyIter

Return ==
    /\ iter.pc = "return"
    /\ iter' = [iter EXCEPT !.pc = "done", !.cancelled = TRUE, !.closed = TRUE, !.init = TRUE]
    /\ OnlyIter

(* contextx.WithQuitCancel: wctx is cancelled once quit is closed. *)
Cancel ==
    /\ iter.quit /\ ~iter.cancelled
    /\ iter' = [iter EXCEPT !.cancelled = TRUE]
    /\ OnlyIter

(* The client reads the channel. *)
Receive ==
    /\ iter.out # <<>>
    /\ iter' = [iter EXCEPT !.out = Tail(@)]
    /\ OnlyIter

(* Halt, of the caller c: wait for init, close quit once, return h.pv. *)
at(c, pc) == iter.halt[c].pc = pc
goto(i, c, pc) == [i EXCEPT !.halt[c].pc = pc]

HaltCall(c) ==
    /\ c \in Users /\ at(c, "idle") /\ iter.halt[c].calls < HaltCalls
    /\ iter' = goto(iter, c, "wait")
    /\ OnlyIter

(* A Halt that does not wait for init. *)
HaltNoWait(c) ==
    /\ at(c, "wait")
    /\ iter' = goto(iter, c, "cas")
    /\ OnlyIter

(* <-h.init.Closed() *)
HaltWait(c) ==
    /\ at(c, "wait") /\ iter.init
    /\ iter' = goto(iter, c, "cas")
    /\ OnlyIter

(* A Close that closes the channel whether or not it is closed. *)
CloseAgain(i, c) == goto(i, c, "close")

(* h.quit.Close(): the first caller, and no other, closes the channel. *)
CloseOnce(i, c) ==
    IF ~i.done THEN goto([i EXCEPT !.done = TRUE], c, "close") ELSE goto(i, c, "read")

HaltClose(c) ==
    /\ at(c, "cas")
    /\ iter' = CloseOnce(iter, c)
    /\ OnlyIter

(* close(quit); closing a closed channel panics. *)
HaltQuit(c) ==
    /\ at(c, "close")
    /\ iter' = goto([iter EXCEPT !.quit = TRUE, !.closes = @ + 1, !.panic = @ \/ iter.quit],
                    c, "read")
    /\ OnlyIter

(* h.mu.Lock(); defer h.mu.Unlock(); return h.pv *)
HaltReturn(c) ==
    /\ at(c, "read")
    /\ iter' = [iter EXCEPT !.halt[c] = [pc |-> "idle", calls |-> @.calls + 1],
                            !.returned = iter.pv]
    /\ OnlyIter

(* The worker ended on its own before the hard limit had elapsed. *)
EndedEarly(i) ==
    i.pc = "done" /\ i.end \in {"depth", "mate", "soft"} /\ i.endAt < i.timer.at

(* The timer of time.AfterFunc(hard, ..) goes off and calls h.Halt(); late *)
(* tells whether the worker had ended early by then.                       *)
TimerFire ==
    /\ iter.timer.armed /\ ~iter.timer.fired /\ iter.now >= iter.timer.at
    /\ iter' = goto([iter EXCEPT !.timer.fired = TRUE, !.timer.late = EndedEarly(iter)],
                    "timer", "wait")
    /\ OnlyIter

Tick ==
    /\ iter.now < MaxTime
    /\ iter.pc \in {"search", "done"}
    /\ iter' = [iter EXCEPT !.now = @ + 1]
    /\ OnlyIter

Worker ==
    \/ Enter \/ Loop \/ SearchNode \/ SearchDone \/ Store \/ Drain \/ Send
    \/ MarkInitialized \/ Limit \/ Return

HaltStep(c) ==
    \/ HaltWait(c) \/ HaltClose(c) \/ HaltQuit(c) \/ HaltReturn(c)

NextIter ==
    \/ Worker
    \/ Cancel
    \/ Receive
    \/ \E c \in Callers : HaltCall(c)
    \/ \E c \in Callers : HaltStep(c)
    \/ TimerFire
    \/ Tick

SpecIter == InitIter /\ [][NextIter]_vars

-----------------------------------------------------------------------------
(* Properties of the iterative search harness. *)

(* What the output channel holds, if anything. *)
Buffered == {iter.out[k] : k \in DOMAIN iter.out}

(* C12: every PV sent on the output channel or returned by Halt comes from *)
(* an iteration that ran to completion without a node seeing the           *)
(* cancellation; an iteration in which a node saw it only returns: it      *)
(* sends nothing and does not store its PV in the handle.                  *)
C12_NoPartialPV ==
    /\ \A k \in DOMAIN iter.sent : ~iter.sent[k].partial
    /\ \A pv \in Buffered \cup {iter.pv, iter.returned} : ~pv.partial
    /\ iter.observed => iter.pc \in {"search", "return", "done"}

(* The search of depth 2 was halted at a node; Halt has returned the PV of *)
(* depth 1.                                                                *)
C12_Witness ==
    /\ iter.pc = "done" /\ iter.end = "errhalted" /\ iter.observed
    /\ iter.depth = 2
    /\ iter.returned = iter.pv /\ iter.pv.depth = 1

(* All of the handle and the worker but the callers of Halt themselves. *)
Searching == [iter EXCEPT !.halt = <<>>, !.returned = NoPV]

(* C13: however often and from whichever goroutines Halt is called, the    *)
(* timer included, the quit channel is closed exactly once and no call     *)
(* panics; a step of Halt made once quit is closed changes nothing of the  *)
(* search.                                                                 *)
C13_HaltIsIdempotent ==
    /\ [](iter.closes <= 1 /\ ~iter.panic /\ (iter.quit <=> iter.closes = 1))
    /\ [][(iter.quit /\ \E c \in Callers : HaltCall(c) \/ HaltStep(c))
              => Searching' = Searching]_vars

(* The client has called Halt twice and the timer once; the channel was    *)
(* closed once.                                                            *)
C13_Witness ==
    /\ iter.halt["u1"].calls = HaltCalls
    /\ iter.halt["timer"].calls = 1
    /\ iter.closes = 1 /\ ~iter.panic

C15_DepthsIncrease ==
    /\ iter.sent # <<>> => iter.sent[1].depth = 1
    /\ \A j, k \in DOMAIN iter.sent : j < k => iter.sent[j].depth < iter.sent[k].depth
    /\ iter.closed <=> iter.pc = "done"
    /\ iter.pc \in {"return", "done"} \/ Len(iter.sent) \in {iter.depth - 1, iter.depth}

C15_Witness ==
    /\ iter.closed
    /\ Len(iter.sent) = MaxIterDepth
    /\ iter.sent[MaxIterDepth].depth = MaxIterDepth

(* The stopping rule as stated: the configured, non-zero depth limit is    *)
(* reached or the score is a mate within depth plies, +inf and -inf        *)
(* counting as mates at distance zero.                                     *)
Abs(x) == IF x < 0 THEN -x ELSE x

ForcedMate(sc, depth) ==
    \/ sc.Type \in {Inf, NegInf}
    \/ sc.Type = MateInX /\ Abs(sc.Mate) <= depth

Stops(i) ==
    \/ i.limit.ok /\ i.limit.v # 0 /\ i.depth = i.limit.v
    \/ ForcedMate(i.pv.score, i.depth)

(* C16: after the PV of depth d is out, the worker starts no further       *)
(* iteration and closes the channel if d is the configured non-zero depth  *)
(* limit or the score is a mate within d plies; otherwise, unless the soft *)
(* limit has expired or Halt was called, it goes on to depth d + 1.        *)
C16_StopsOrDeepens ==
    /\ [][(iter.pc = "limits" /\ iter'.pc # "limits") =>
              /\ Stops(iter) => iter'.pc = "return"
              /\ (~Stops(iter) /\ ~(iter.useSoft /\ iter.soft < iter.now - iter.start))
                     => (iter'.pc = "loop" /\ iter'.depth = iter.depth + 1)]_vars
    /\ [][(iter.pc = "loop" /\ iter'.pc # "loop") =>
              iter'.pc = (IF iter.quit THEN "return" ELSE "search")]_vars
    /\ [][(iter.pc = "return" /\ iter'.pc # "return") =>
              (iter'.pc = "done" /\ iter'.closed /\ iter'.sent = iter.sent)]_vars

(* The searches of depth 1 and 2 went on and the search of depth 3 ended   *)
(* the worker with a mate in 3 against the side to move.                   *)
C16_Witness ==
    /\ iter.pc = "done" /\ iter.end = "mate"
    /\ iter.depth = 3 /\ iter.pv = PV(3, MateInXScore(-3), FALSE)
    /\ iter.closed

(* C17: with a time control, the soft limit is T/(2*M) of the remaining    *)
(* time T of the side to move, M being 40 or the moves to go plus one, and *)
(* the worker starts no new iteration once the time since the launch, at   *)
(* time 0, exceeds it.                                                     *)
C17_SoftLimitSinceLaunch ==
    [][(iter.pc = "limits" /\ iter'.pc = "loop" /\ iter.tc.ok) =>
          /\ iter.soft = Remainder(iter.tc.v, iter.turn)
                           \div (2 * (IF iter.tc.v.Moves = 0 THEN 40 ELSE iter.tc.v.Moves + 1))
          /\ ~(iter.now > iter.soft)]_vars

(* C18: when a search with a time control has ended on its own before the  *)
(* hard limit has elapsed, the timer does not go off any more: no Halt of  *)
(* the timer runs after the worker has ended.                              *)
C18_TimerIsCancelled ==
    iter.timer.fired => ~iter.timer.late

(* C25: the worker never finds the channel full when it sends; the channel *)
(* holds at most one PV, and the one it holds is the newest one sent; once *)
(* the channel is closed the PV in it stays until the client receives it.  *)
C25_SendNeverBlocks ==
    /\ [](Len(iter.out) <= 1)
    /\ [](iter.pc = "send" => iter.out = <<>>)
    /\ [](iter.out # <<>> =>
             /\ iter.sent # <<>>
             /\ iter.out[1].depth = iter.sent[Len(iter.sent)].depth)
    /\ [][iter.closed =>
             /\ iter'.closed
             /\ \/ iter'.out = iter.out
                \/ iter'.out = Tail(iter.out) /\ iter'.pc = iter.pc]_vars

(* Some call of Halt, the timer's included, has returned. *)
HaltHasReturned == \E c \in Callers : iter.halt[c].calls > 0

(* C28: once a call of Halt has returned a PV the worker sends no further  *)
(* PV and does not change the stored PV: the PV returned is the stored one *)
(* from then on, and every later Halt returns it again.                    *)
C28_HaltReturnsLastPV ==
    /\ [](HaltHasReturned => iter.returned = iter.pv)
    /\ [][HaltHasReturned => (iter'.pv = iter.pv /\ iter'.sent = iter.sent)]_vars

(* A PV the client had not read was dropped for a newer one, and the last  *)
(* PV is still in the closed channel.                                      *)
C25_Witness ==
    /\ iter.closed /\ iter.dropped
    /\ iter.out # <<>> /\ iter.out[1] = iter.pv

-----------------------------------------------------------------------------
(* The move list with the hash move first: the list of the pseudo-legal    *)
(* moves of a position is built with a priority that puts a given move     *)
(* first, and the moves are taken from it one by one. There are two        *)
(* priorities: First(f).MVVLVA of package search, which runAlphaBeta uses,  *)
(* and First(f, fn) of package board, here wrapping MVVLVA.                 *)

MaxInt16 == 32767

First(f, m) == IF MoveEquals(f, m) THEN MaxInt16 ELSE MVVLVA(m)

NewMoveListOf(moves, f) ==
    heapInit([i \in 1..Len(moves) |-> [m |-> moves[i], val |-> First(f, moves[i])]],
             Len(moves) \div 2)

ListPriorities == {"search.First.MVVLVA", "board.First"}

ListPriority(fn, f, m) == IF fn = "board.First" THEN First(f, m) ELSE FirstMVVLVA(f, m)

ListPositions == {PromotionPosition, CastlingPosition}

OnlyList == UNCHANGED <<boardVars, zobrist, score, tt, conc, search, iter, engine>>

BuildList(fn, f, moves) ==
    [fn |-> fn, f |-> f, moves |-> moves,
     vals |-> [i \in 1..Len(moves) |-> ListPriority(fn, f, moves[i])],
     h |-> IF fn = "board.First"
           THEN NewMoveListOf(moves, f)
           ELSE NewMoveList(moves, f),
     taken |-> <<>>, ok |-> TRUE]

InitList ==
    /\ nodes = <<>> /\ boards = <<>> /\ game = <<>> /\ fork = NoFork /\ op = <<>>
    /\ zobrist = <<>> /\ score = <<>> /\ tt = <<>> /\ conc = <<>> /\ search = <<>>
    /\ iter = <<>> /\ engine = <<>>
    /\ \E pos \in ListPositions, turn \in Colors, fn \in ListPriorities :
          \E f \in Range(PseudoLegalMoves(pos, turn)) \cup {NoMove} :
              ml = BuildList(fn, f, PseudoLegalMoves(pos, turn))

(* Next on a list that holds moves, and on an empty list. *)
ListNext ==
    /\ ml.h # <<>>
    /\ ml' = [ml EXCEPT !.taken = Append(@, MoveListNext(ml.h).m),
                            !.h = MoveListNext(ml.h).rest]
    /\ OnlyList

ListEnd ==
    /\ ml.h = <<>> /\ ml.ok
    /\ ml' = [ml EXCEPT !.ok = FALSE]
    /\ OnlyList

NextList == ListNext \/ ListEnd

SpecList == InitList /\ [][NextList]_vars

(* The designated move is one of the moves of the ml. *)
Designated == \E i \in 1..Len(ml.moves) : MoveEquals(ml.moves[i], ml.f)

(* C22: the first move taken from a list built with the hash move first is *)
(* the designated move when it is in the list, whatever the MVV/LVA        *)
(* priorities of the other moves are, and every other move has its MVV/LVA *)
(* priority.                                                               *)
C22_HashMoveFirst ==
    /\ (Designated /\ ml.taken # <<>>) => MoveEquals(ml.taken[1], ml.f)
    /\ \A i \in 1..Len(ml.moves) :
          ~MoveEquals(ml.moves[i], ml.f) => ml.vals[i] = MVVLVA(ml.moves[i])

(* The same of the priority of package board alone. *)
C22_BoardFirst == ml.fn = "board.First" => C22_HashMoveFirst

-----------------------------------------------------------------------------
(* The engine: its board, its options and its active search handle, under  *)
(* the engine's mutex. Clients call Analyze, Halt, Reset, Move and         *)
(* TakeBack concurrently; every method holds e.mu from its first line to   *)
(* its return. A launched search is known to the engine by its handle      *)
(* only: whether the worker has closed init, whether Halt has closed quit, *)
(* the board it was forked for and the depth limit it was given.           *)

MaxEngineCalls == 4

Clients == {"c1", "c2"}

SearchAlreadyActive == "search already active"
NoActiveSearch == "no active search"
NoMoveToTakeBack == "no move to take back"
InvalidMove == "invalid move"
IllegalMove == "illegal move"
InvalidPosition == "invalid position"
NoError == ""

QueenFEN == "k7/7Q/1K6/8/8/8/8/8 w - - 0 1"

(* fen.Decode on the positions the clients send. *)
Decode(position) ==
    IF position = QueenFEN
    THEN [ok |-> TRUE, pos |-> QueenPosition, turn |-> White, noprogress |-> 0, fullmoves |-> 1]
    ELSE [ok |-> FALSE, pos |-> QueenPosition, turn |-> White, noprogress |-> 0, fullmoves |-> 0]

EnginePositions == {QueenFEN, "8/8 w"}

(* board.ParseMove on the moves the clients send: From, To and Promotion. *)
Candidate(from, to) == [ok |-> TRUE, m |-> Move(NoType, from, to, NoPiece, NoPiece, NoPiece)]

ParseMove(str) ==
    CASE str = "h7g7" -> Candidate(H7, G7)
      [] str = "a8b8" -> Candidate(A8, B8)
      [] str = "a8a7" -> Candidate(A8, A7)
      [] str = "e2e4" -> Candidate(E2, E4)
      [] OTHER -> [ok |-> FALSE, m |-> NoMove]

EngineMoves == {"h7g7", "a8b8", "a8a7", "e2e4", "move"}

SearchOptions == {None, Some(2)}

(* A handle of searchctl, as the engine sees it. *)
NewHandle(b, limit) == [b |-> b, limit |-> limit, init |-> FALSE, quit |-> FALSE, pv |-> NoPV]

nilHandle == 0

(* engine.New with the option Depth, reset to the queen ending: no search  *)
(* is active and the first table is in place.                             *)
NewEngine(depth) ==
    LET nb == NewBoard(<<>>, QueenPosition, White, 0, 1)
    IN  [depth |-> depth, heap |-> nb.heap, b |-> nb.board, tables |-> 1,
         handles |-> <<>>, active |-> nilHandle]

Out(e, err, pv) == [e |-> e, err |-> err, pv |-> pv]

(* A handle's Halt blocks until the worker has closed init. *)
CanHalt(e) == IF e.active = nilHandle THEN TRUE ELSE e.handles[e.active].init

haltSearchIfActive(e) ==
    IF e.active # nilHandle
    THEN [e |-> [e EXCEPT !.handles[e.active].quit = TRUE, !.active = nilHandle],
          pv |-> e.handles[e.active].pv, ok |-> TRUE]
    ELSE [e |-> e, pv |-> NoPV, ok |-> FALSE]

(* Analyze that launches whether or not a search is active. *)
AnalyzeAnyway(e, opt) ==
    LET f == Fork(e.heap, e.b)
        limit == IF opt.ok THEN opt ELSE Some(e.depth)
    IN  Out([e EXCEPT !.heap = f.heap,
                      !.handles = Append(@, NewHandle(f.board, limit)),
                      !.active = Len(e.handles) + 1],
            NoError, NoPV)

Analyze(e, opt) ==
    IF e.active # nilHandle THEN Out(e, SearchAlreadyActive, NoPV)
    ELSE AnalyzeAnyway(e, opt)

EngineHalt(e) ==
    LET h == haltSearchIfActive(e)
    IN  IF ~h.ok THEN Out(h.e, NoActiveSearch, NoPV) ELSE Out(h.e, NoError, h.pv)

Reset(e, position) ==
    LET h == haltSearchIfActive(e)
        d == Decode(position)
        nb == NewBoard(h.e.heap, d.pos, d.turn, d.noprogress, d.fullmoves)
    IN  IF ~d.ok THEN Out(h.e, InvalidPosition, NoPV)
        ELSE Out([h.e EXCEPT !.heap = nb.heap, !.b = nb.board, !.tables = @ + 1], NoError, NoPV)

(* The first pseudo-legal move that equals the candidate, if any. *)
FirstEqual(moves, candidate) ==
    LET is == {i \in 1..Len(moves) : MoveEquals(candidate, moves[i])}
    IN  IF is = {} THEN 0 ELSE CHOOSE i \in is : \A j \in is : i <= j

MoveFound(e, m) ==
    LET p == PushMove(e.heap, e.b, m)
    IN  IF ~p.ok THEN Out(e, IllegalMove, NoPV)
        ELSE Out([e EXCEPT !.heap = p.heap, !.b = p.board], NoError, NoPV)

MoveParsed(e, candidate, moves) ==
    IF FirstEqual(moves, candidate) = 0 THEN Out(e, InvalidMove, NoPV)
    ELSE MoveFound(e, moves[FirstEqual(moves, candidate)])

EngineMove(e, move) ==
    IF ~ParseMove(move).ok THEN Out(e, InvalidMove, NoPV)
    ELSE MoveParsed(haltSearchIfActive(e).e, ParseMove(move).m,
                    PseudoLegalMoves(e.heap[e.b.current].pos, e.b.turn))

TakeBack(e) ==
    LET h == haltSearchIfActive(e)
        p == PopMove(h.e.heap, h.e.b)
    IN  IF ~p.ok THEN Out(h.e, NoMoveToTakeBack, NoPV)
        ELSE Out([h.e EXCEPT !.heap = p.heap, !.b = p.board], NoError, NoPV)

OnlyEngine == UNCHANGED <<boardVars, zobrist, score, tt, conc, search, iter, ml>>

Request(method, opt, str) == [method |-> method, opt |-> opt, str |-> str]

NoCall == Request("", None, "")

InitEngine ==
    /\ nodes = <<>> /\ boards = <<>> /\ game = <<>> /\ fork = NoFork /\ op = <<>>
    /\ zobrist = <<>> /\ score = <<>> /\ tt = <<>> /\ conc = <<>> /\ search = <<>>
    /\ iter = <<>> /\ ml = <<>>
    /\ \E depth \in {0, 3} :
          engine = [e |-> NewEngine(depth), mu |-> "", pc |-> [c \in Clients |-> NoCall],
                    calls |-> 0, returns |-> 0,
                    last |-> [c |-> "", method |-> "", err |-> NoError, pv |-> NoPV]]

Calls ==
    {Request("Analyze", opt, "") : opt \in SearchOptions}
    \cup {Request("Halt", None, ""), Request("TakeBack", None, "")}
    \cup {Request("Reset", None, position) : position \in EnginePositions}
    \cup {Request("Move", None, move) : move \in EngineMoves}

(* A client calls a method and stands at e.mu.Lock(). *)
Invoke(c) ==
    /\ engine.pc[c] = NoCall
    /\ engine.calls < MaxEngineCalls
    /\ \E req \in Calls : engine' = [engine EXCEPT !.pc[c] = req, !.calls = @ + 1]
    /\ OnlyEngine

Lock(c) ==
    /\ engine.pc[c] # NoCall
    /\ engine.mu = ""
    /\ engine' = [engine EXCEPT !.mu = c]
    /\ OnlyEngine

(* The body of the method up to its return, and the deferred Unlock. *)
Unlocked(c, out) ==
    [engine EXCEPT !.e = out.e, !.mu = "", !.pc[c] = NoCall, !.returns = @ + 1,
                   !.last = [c |-> c, method |-> engine.pc[c].method,
                             err |-> out.err, pv |-> out.pv]]

Running(c, method) == engine.mu = c /\ engine.pc[c].method = method

RunAnalyze(c) ==
    /\ Running(c, "Analyze")
    /\ engine' = Unlocked(c, Analyze(engine.e, engine.pc[c].opt))
    /\ OnlyEngine

RunHalt(c) ==
    /\ Running(c, "Halt")
    /\ CanHalt(engine.e)
    /\ engine' = Unlocked(c, EngineHalt(engine.e))
    /\ OnlyEngine

RunReset(c) ==
    /\ Running(c, "Reset")
    /\ CanHalt(engine.e)
    /\ engine' = Unlocked(c, Reset(engine.e, engine.pc[c].str))
    /\ OnlyEngine

RunMove(c) ==
    /\ Running(c, "Move")
    /\ IF ParseMove(engine.pc[c].str).ok THEN CanHalt(engine.e) ELSE TRUE
    /\ engine' = Unlocked(c, EngineMove(engine.e, engine.pc[c].str))
    /\ OnlyEngine

RunTakeBack(c) ==
    /\ Running(c, "TakeBack")
    /\ CanHalt(engine.e)
    /\ engine' = Unlocked(c, TakeBack(engine.e))
    /\ OnlyEngine

(* The worker of a search publishes its first PV and closes init. *)
Initialized ==
    /\ \E h \in 1..Len(engine.e.handles) :
          /\ ~engine.e.handles[h].init
          /\ engine' = [engine EXCEPT !.e.handles[h].init = TRUE,
                                      !.e.handles[h].pv = PV(1, ZeroScore, FALSE)]
    /\ OnlyEngine

NextEngine ==
    \/ \E c \in Clients : Invoke(c)
    \/ \E c \in Clients : Lock(c)
    \/ \E c \in Clients : RunAnalyze(c)
    \/ \E c \in Clients : RunHalt(c)
    \/ \E c \in Clients : RunReset(c)
    \/ \E c \in Clients : RunMove(c)
    \/ \E c \in Clients : RunTakeBack(c)
    \/ Initialized

SpecEngine == InitEngine /\ [][NextEngine]_vars

(* The handles of the searches that were launched and not halted. *)
Unhalted == {h \in 1..Len(engine.e.handles) : ~engine.e.handles[h].quit}

(* The method that has just returned. *)
Just(method) == engine'.returns # engine.returns /\ engine'.last.method = method

(* C23: the engine has at most one search that was launched and not        *)
(* halted, and it is the active handle; an Analyze while a handle is       *)
(* active returns "search already active", launches nothing and leaves the *)
(* board and the active handle as they were; a Halt with no active handle  *)
(* returns "no active search".                                             *)
C23_OneActiveSearch ==
    /\ [](Unhalted = {engine.e.active} \ {nilHandle})
    /\ [][(Just("Analyze") /\ engine.e.active # nilHandle) =>
              /\ engine'.last.err = SearchAlreadyActive
              /\ engine'.e = engine.e]_vars
    /\ [][(Just("Analyze") /\ engine.e.active = nilHandle) =>
              /\ engine'.last.err = NoError
              /\ Len(engine'.e.handles) = Len(engine.e.handles) + 1
              /\ engine'.e.active = Len(engine'.e.handles)]_vars
    /\ [][(Just("Halt") /\ engine.e.active = nilHandle) =>
              /\ engine'.last.err = NoActiveSearch
              /\ engine'.e = engine.e]_vars

(* A second Analyze has been refused while the first search, launched      *)
(* after a move on the board, was still active.                            *)
C23_Witness ==
    /\ engine.last.method = "Analyze" /\ engine.last.err = SearchAlreadyActive
    /\ engine.e.active = 1 /\ Len(engine.e.handles) = 1
    /\ engine.e.heap[engine.e.b.current].prev # NoNode

====
